---- MODULE Spec2Model ----
(***************************************************************************)
(* Source materialization, file indexing, bundle reading and session       *)
(* state of the documentation generator backend                            *)
(* (backend/source_utils.py, backend/summarizer_modal.py).                 *)
(*                                                                         *)
(* Text is modelled as a sequence of one-character strings, so that glob   *)
(* matching, codepoint ordering and concatenation are computed, not        *)
(* assumed.  File contents are sequences of byte tokens.                   *)
(***************************************************************************)
EXTENDS Integers, Sequences, FiniteSets, TLC

(***************************************************************************)
(* Characters and their codepoint order (Python compares str by codepoint) *)
(***************************************************************************)

\* The characters that occur in the modelled paths and patterns, listed in
\* ascending codepoint (ASCII) order.
Alphabet ==
    << "\n", " ", "!", "#", "*", "-", ".", "/", "1", "2", "=", "?",
       "A", "B", "C", "X", "Y", "[", "]", "_",
       "a", "b", "c", "d", "e", "f", "g", "h", "i", "j", "k", "l", "m",
       "n", "o", "p", "q", "r", "s", "t", "u", "v", "w", "x", "y", "z" >>

Chars == { Alphabet[k] : k \in 1..Len(Alphabet) }

\* ord(c), up to an order-preserving renumbering.
CodeTable == [c \in Chars |-> CHOOSE k \in 1..Len(Alphabet) : Alphabet[k] = c]

Code(c) == CodeTable[c]

\* str.__lt__ : lexicographic comparison by codepoint.
RECURSIVE StrLessFrom(_, _, _)
StrLessFrom(s, t, k) ==
    IF k > Len(t) THEN FALSE
    ELSE IF k > Len(s) THEN TRUE
    ELSE IF s[k] # t[k] THEN Code(s[k]) < Code(t[k])
    ELSE StrLessFrom(s, t, k + 1)

StrLess(s, t) == StrLessFrom(s, t, 1)

\* sep.join(parts)
RECURSIVE Join(_, _)
Join(sep, parts) ==
    IF parts = << >> THEN << >>
    ELSE IF Len(parts) = 1 THEN parts[1]
    ELSE parts[1] \o sep \o Join(sep, Tail(parts))

(***************************************************************************)
(* fnmatch.fnmatch(name, pat) as the indexer calls it (POSIX: normcase is  *)
(* the identity, the match is case-sensitive and "/" is an ordinary        *)
(* character, so "*" also crosses directory separators).                   *)
(***************************************************************************)

\* fnmatch.translate: position of the "]" that closes the class opened at
\* pat[i] = "[", or 0 when the bracket is not closed (then "[" is literal).
RECURSIVE ScanClass(_, _)
ScanClass(pat, j) ==
    IF j > Len(pat) THEN 0
    ELSE IF pat[j] = "]" THEN j
    ELSE ScanClass(pat, j + 1)

ClassEnd(pat, i) ==
    LET j1 == IF i + 1 <= Len(pat) /\ pat[i + 1] = "!" THEN i + 2 ELSE i + 1
        j2 == IF j1 <= Len(pat) /\ pat[j1] = "]" THEN j1 + 1 ELSE j1
    IN  ScanClass(pat, j2)

\* Membership of c in the body of a character class (single characters and
\* x-y ranges by codepoint).
RECURSIVE InClass(_, _, _)
InClass(body, k, c) ==
    IF k > Len(body) THEN FALSE
    ELSE IF k + 2 <= Len(body) /\ body[k + 1] = "-"
         THEN \/ (Code(body[k]) <= Code(c) /\ Code(c) <= Code(body[k + 2]))
              \/ InClass(body, k + 3, c)
         ELSE body[k] = c \/ InClass(body, k + 1, c)

ClassMatches(stuff, c) ==
    IF stuff = << "!" >> THEN TRUE
    ELSE IF stuff[1] = "!" THEN ~InClass(Tail(stuff), 1, c)
    ELSE InClass(stuff, 1, c)

\* The translated pattern matched against the whole name.
RECURSIVE MatchFrom(_, _, _, _)
MatchFrom(pat, i, name, j) ==
    IF i > Len(pat) THEN j > Len(name)
    ELSE IF pat[i] = "*"
         THEN \/ MatchFrom(pat, i + 1, name, j)
              \/ (j <= Len(name) /\ MatchFrom(pat, i, name, j + 1))
    ELSE IF pat[i] = "?"
         THEN j <= Len(name) /\ MatchFrom(pat, i + 1, name, j + 1)
    ELSE IF pat[i] = "[" /\ ClassEnd(pat, i) # 0
         THEN LET e == ClassEnd(pat, i)
              IN  /\ j <= Len(name)
                  /\ ClassMatches(SubSeq(pat, i + 1, e - 1), name[j])
                  /\ MatchFrom(pat, e + 1, name, j + 1)
    ELSE /\ j <= Len(name)
         /\ name[j] = pat[i]
         /\ MatchFrom(pat, i + 1, name, j + 1)

fnmatch(name, pat) == MatchFrom(pat, 1, name, 1)

\* any(fnmatch.fnmatch(rel_path, pat) for pat in globs)
MatchesAny(rel, globs) == \E k \in 1..Len(globs) : fnmatch(rel, globs[k])

(***************************************************************************)
(* The materialized tree under a root: relative path -> directory entry.   *)
(* os.walk lists every non-directory entry in `filenames`, so an entry is  *)
(* either a regular file with its bytes or a dangling symbolic link, for   *)
(* which os.path.getsize raises OSError and os.path.isfile is False.       *)
(***************************************************************************)

InvalidByte == "FF"      \* a byte that is not valid UTF-8

RegularFile(bytes) == [kind |-> "file", bytes |-> bytes]
DanglingLink == [kind |-> "link", bytes |-> << >>]

\* os.path.getsize(abs_path) succeeds
SizeReadable(f) == f.kind = "file"

\* os.path.getsize(abs_path)
getsize(f) == Len(f.bytes)

\* os.path.isfile(os.path.join(root, rel)) for a relative path of the tree
isfile(tree, rel) == rel \in DOMAIN tree /\ tree[rel].kind = "file"

\* open(..., encoding="utf8", errors="ignore").read(): invalid bytes dropped
RECURSIVE DecodeIgnore(_)
DecodeIgnore(bytes) ==
    IF bytes = << >> THEN << >>
    ELSE IF Head(bytes) = InvalidByte THEN DecodeIgnore(Tail(bytes))
    ELSE << Head(bytes) >> \o DecodeIgnore(Tail(bytes))

PreviewChars == 200

\* f.read(200) inside try/except: the empty string when the open fails
Preview(tree, rel) ==
    IF ~isfile(tree, rel) THEN << >>
    ELSE LET text == DecodeIgnore(tree[rel].bytes)
         IN  SubSeq(text, 1, IF Len(text) < PreviewChars THEN Len(text) ELSE PreviewChars)

(***************************************************************************)
(* index_files(root, include_globs, exclude_globs, max_files, max_bytes)   *)
(***************************************************************************)

\* Variant of the filter in which an include match is tested first and wins.
PassesFilter_IncludeWins(rel, include_globs, exclude_globs) ==
    IF include_globs # << >> /\ MatchesAny(rel, include_globs) THEN TRUE
    ELSE IF MatchesAny(rel, exclude_globs) THEN FALSE
    ELSE include_globs = << >>

\* Variant of the filter without the "include_globs and" guard: an empty
\* include list matches nothing.
PassesFilter_EmptyIncludeRejects(rel, include_globs, exclude_globs) ==
    IF MatchesAny(rel, exclude_globs) THEN FALSE
    ELSE IF ~MatchesAny(rel, include_globs) THEN FALSE
    ELSE TRUE

\* The two filter tests of the walk loop: TRUE when the file is kept.
PassesFilter(rel, include_globs, exclude_globs) ==
    IF MatchesAny(rel, exclude_globs) THEN FALSE
    ELSE IF include_globs # << >> /\ ~MatchesAny(rel, include_globs) THEN FALSE
    ELSE TRUE

\* The walk loop: candidates in the order os.walk enumerates the files.
RECURSIVE CollectCandidates(_, _, _, _, _)
CollectCandidates(tree, walk, k, include_globs, exclude_globs) ==
    IF k > Len(walk) THEN << >>
    ELSE LET rel  == walk[k]
             rest == CollectCandidates(tree, walk, k + 1, include_globs, exclude_globs)
         IN  IF ~PassesFilter(rel, include_globs, exclude_globs) THEN rest
             ELSE IF ~SizeReadable(tree[rel]) THEN rest
             ELSE << << rel, getsize(tree[rel]) >> >> \o rest

\* Order of the (rel_path, size) tuples under list.sort()
TupleLess(a, b) == StrLess(a[1], b[1]) \/ (a[1] = b[1] /\ a[2] < b[2])

RECURSIVE InsertSorted(_, _)
InsertSorted(sorted, x) ==
    IF sorted = << >> THEN << x >>
    ELSE IF TupleLess(x, Head(sorted)) THEN << x >> \o sorted
    ELSE << Head(sorted) >> \o InsertSorted(Tail(sorted), x)

RECURSIVE SortFrom(_, _, _)
SortFrom(cands, k, acc) ==
    IF k > Len(cands) THEN acc
    ELSE SortFrom(cands, k + 1, InsertSorted(acc, cands[k]))

\* Variant without the sort: candidates stay in walk order.
SortCandidates_WalkOrder(cands) == cands

\* candidates.sort()
SortCandidates(cands) == SortFrom(cands, 1, << >>)

\* Variant of the cap loop whose count test is "len(out) > max_files".
RECURSIVE CapLoop_CountOffByOne(_, _, _, _, _, _, _)
CapLoop_CountOffByOne(tree, cands, k, out, total, max_files, max_bytes) ==
    IF k > Len(cands) THEN out
    ELSE LET rel_path == cands[k][1]
             size     == cands[k][2]
         IN  IF Len(out) > max_files THEN out
             ELSE IF total + size > max_bytes THEN out
             ELSE CapLoop_CountOffByOne(tree, cands, k + 1,
                          Append(out, [path |-> rel_path, size |-> size,
                                       preview |-> Preview(tree, rel_path)]),
                          total + size, max_files, max_bytes)

\* Variant of the cap loop that skips a file crossing the byte cap
\* ("continue") instead of stopping.
RECURSIVE CapLoop_SkipOversized(_, _, _, _, _, _, _)
CapLoop_SkipOversized(tree, cands, k, out, total, max_files, max_bytes) ==
    IF k > Len(cands) THEN out
    ELSE LET rel_path == cands[k][1]
             size     == cands[k][2]
         IN  IF Len(out) >= max_files THEN out
             ELSE IF total + size > max_bytes
                  THEN CapLoop_SkipOversized(tree, cands, k + 1, out, total,
                                             max_files, max_bytes)
             ELSE CapLoop_SkipOversized(tree, cands, k + 1,
                          Append(out, [path |-> rel_path, size |-> size,
                                       preview |-> Preview(tree, rel_path)]),
                          total + size, max_files, max_bytes)

\* Variant of the cap loop whose byte test is "total + size >= max_bytes".
RECURSIVE CapLoop_StrictByteCap(_, _, _, _, _, _, _)
CapLoop_StrictByteCap(tree, cands, k, out, total, max_files, max_bytes) ==
    IF k > Len(cands) THEN out
    ELSE LET rel_path == cands[k][1]
             size     == cands[k][2]
         IN  IF Len(out) >= max_files THEN out
             ELSE IF total + size >= max_bytes THEN out
             ELSE CapLoop_StrictByteCap(tree, cands, k + 1,
                          Append(out, [path |-> rel_path, size |-> size,
                                       preview |-> Preview(tree, rel_path)]),
                          total + size, max_files, max_bytes)

\* The cap loop over the sorted candidates.
RECURSIVE CapLoop(_, _, _, _, _, _, _)
CapLoop(tree, cands, k, out, total, max_files, max_bytes) ==
    IF k > Len(cands) THEN out
    ELSE LET rel_path == cands[k][1]
             size     == cands[k][2]
         IN  IF Len(out) >= max_files THEN out
             ELSE IF total + size > max_bytes THEN out
             ELSE CapLoop(tree, cands, k + 1,
                          Append(out, [path |-> rel_path, size |-> size,
                                       preview |-> Preview(tree, rel_path)]),
                          total + size, max_files, max_bytes)

index_files(tree, walk, include_globs, exclude_globs, max_files, max_bytes) ==
    CapLoop(tree,
            SortCandidates(CollectCandidates(tree, walk, 1, include_globs, exclude_globs)),
            1, << >>, 0, max_files, max_bytes)

(***************************************************************************)
(* read_selected_bundle(root, selected_paths)                              *)
(***************************************************************************)

\* f"# === {rel} ===\n{f.read()}\n"
Block(rel, text) ==
    << "#", " ", "=", "=", "=", " " >> \o rel \o << " ", "=", "=", "=", "\n" >>
        \o text \o << "\n" >>

Returned(text) == [ok |-> TRUE, text |-> text, error |-> "none"]
Raised(kind)   == [ok |-> FALSE, text |-> << >>, error |-> kind]

\* Variant of the bundle loop that skips a missing file instead of raising.
RECURSIVE BundleLoop_SkipMissing(_, _, _, _)
BundleLoop_SkipMissing(tree, selected_paths, k, parts) ==
    IF k > Len(selected_paths) THEN Returned(Join(<< "\n" >>, parts))
    ELSE LET rel == selected_paths[k]
         IN  IF ~isfile(tree, rel)
             THEN BundleLoop_SkipMissing(tree, selected_paths, k + 1, parts)
             ELSE BundleLoop_SkipMissing(tree, selected_paths, k + 1,
                             Append(parts, Block(rel, DecodeIgnore(tree[rel].bytes))))

\* Variant of the bundle loop that puts each new block in front of the
\* earlier ones.
RECURSIVE BundleLoop_Prepend(_, _, _, _)
BundleLoop_Prepend(tree, selected_paths, k, parts) ==
    IF k > Len(selected_paths) THEN Returned(Join(<< "\n" >>, parts))
    ELSE LET rel == selected_paths[k]
         IN  IF ~isfile(tree, rel) THEN Raised("FileNotFoundError")
             ELSE BundleLoop_Prepend(tree, selected_paths, k + 1,
                             << Block(rel, DecodeIgnore(tree[rel].bytes)) >> \o parts)

RECURSIVE BundleLoop(_, _, _, _)
BundleLoop(tree, selected_paths, k, parts) ==
    IF k > Len(selected_paths) THEN Returned(Join(<< "\n" >>, parts))
    ELSE LET rel == selected_paths[k]
         IN  IF ~isfile(tree, rel) THEN Raised("FileNotFoundError")
             ELSE BundleLoop(tree, selected_paths, k + 1,
                             Append(parts, Block(rel, DecodeIgnore(tree[rel].bytes))))

read_selected_bundle(tree, selected_paths) == BundleLoop(tree, selected_paths, 1, << >>)

(***************************************************************************)
(* os.walk(root): top-down; the files of one directory are enumerated      *)
(* together and before the files of its subdirectories, in an order the    *)
(* filesystem chooses.                                                     *)
(***************************************************************************)

SlashPositions(p) == { k \in 1..Len(p) : p[k] = "/" }

\* os.path.dirname of a relative path (the empty string for a top-level file)
DirOf(p) ==
    IF SlashPositions(p) = {} THEN << >>
    ELSE SubSeq(p, 1, (CHOOSE k \in SlashPositions(p) :
                          \A m \in SlashPositions(p) : m <= k) - 1)

AncestorDirs(p) == { << >> } \cup { SubSeq(p, 1, k - 1) : k \in SlashPositions(p) }

\* p lies in directory d or below it
Under(d, p) ==
    \/ d = << >>
    \/ (Len(p) > Len(d) /\ SubSeq(p, 1, Len(d)) = d /\ p[Len(d) + 1] = "/")

\* All orderings of a finite set of paths.
RECURSIVE Orderings(_)
Orderings(S) ==
    IF S = {} THEN { << >> }
    ELSE UNION { { << x >> \o w : w \in Orderings(S \ {x}) } : x \in S }

IsWalkOrder(w) ==
    \A d \in UNION { AncestorDirs(w[i]) : i \in 1..Len(w) } :
        LET idx == { i \in 1..Len(w) : Under(d, w[i]) }
        IN  /\ \A i, j \in idx : \A k \in i..j : k \in idx
            /\ \A i, j \in idx : (DirOf(w[i]) = d /\ DirOf(w[j]) # d) => i < j

\* The orders in which os.walk can enumerate a set of files.
WalkOrdersOf(S) == { w \in Orderings(S) : IsWalkOrder(w) }

(***************************************************************************)
(* Bounded inputs                                                          *)
(***************************************************************************)

MaxTreeFiles == 3      \* files in a materialized tree
MaxSelected  == 2      \* length of selected_paths

P_B_md    == << "B", ".", "m", "d" >>
P_a_py    == << "a", ".", "p", "y" >>
P_d_a_py  == << "d", "/", "a", ".", "p", "y" >>
P_d_c_txt == << "d", "/", "c", ".", "t", "x", "t" >>
P_missing == << "b", ".", "t", "x", "t" >>
P_dir     == << "d" >>

PathUniverse == { P_B_md, P_a_py, P_d_a_py, P_d_c_txt }

Bytes4 == << "h", "i", InvalidByte, "\n" >>
Bytes6 == << "X", "Y", "X", "Y", "X", "\n" >>

FileChoices == { RegularFile(Bytes4), RegularFile(Bytes6), DanglingLink }

Trees ==
    UNION { [S -> FileChoices] :
              S \in { T \in SUBSET PathUniverse : Cardinality(T) <= MaxTreeFiles } }

G_py      == << "*", ".", "p", "y" >>
G_md      == << "*", ".", "m", "d" >>
G_d_all   == << "d", "/", "*" >>
G_q_py    == << "?", ".", "p", "y" >>
G_notlow  == << "[", "!", "a", "-", "d", "]", "*" >>

IncludeChoices == { << >>, << G_py >>, << G_md, G_d_all >> }
ExcludeChoices == { << >>, << G_d_all >>, << G_notlow, G_q_py >> }

DefaultMaxFiles == 500
DefaultMaxBytes == 20000000

MaxFilesChoices == { 0, 1, 2, DefaultMaxFiles }
MaxBytesChoices == { 9, 10, DefaultMaxBytes }

\* The orders in which os.walk can enumerate the files of a tree (tabulated
\* once per set of paths).
RECURSIVE TabulateWalks(_)
TabulateWalks(Ss) ==
    IF Ss = {} THEN [S \in {} |-> {}]
    ELSE LET S == CHOOSE T \in Ss : TRUE
         IN  (S :> { w : w \in WalkOrdersOf(S) }) @@ TabulateWalks(Ss \ {S})

WalkTable == TabulateWalks(SUBSET PathUniverse)

WalkOrders(t) == WalkTable[DOMAIN t]

SelectablePaths == { P_B_md, P_d_a_py, P_missing, P_dir }
Selections == UNION { [1..n -> SelectablePaths] : n \in 0..MaxSelected }

(***************************************************************************)
(* The two endpoints of summarizer_modal.py over the shared volume.        *)
(*                                                                         *)
(* Each Modal function runs in its own containers; a container handles one *)
(* request at a time and sees the volume mounted at /data through a local  *)
(* view: writes stay local until volume.commit(), and commits of other     *)
(* containers become visible only by volume.reload().                      *)
(***************************************************************************)

MaxSessions == 1       \* prepare requests in one behaviour of both endpoints

PrepContainers == { "p1" }
SumContainers  == { "s1", "s2" }

\* Containers of the prepare function when it is scaled to two; together
\* they serve as many requests as there are containers.
ConcurrentPrepContainers == { "p1", "p2" }
ConcurrentPrepares == Cardinality(ConcurrentPrepContainers)

\* The source ids uuid4 hands out, in the order it does.
Ids  == 1..(IF ConcurrentPrepares > MaxSessions THEN ConcurrentPrepares ELSE MaxSessions)
NoId == 0

Containers == ConcurrentPrepContainers \cup SumContainers

EmptyTree == << >>

\* The root recorded in manifest.json: /data/<sid>/<base>[/<subdir>]
Root(sid, base, subdir) == [sid |-> sid, base |-> base, subdir |-> subdir]
NoRoot == Root(NoId, "none", << >>)

\* The working folder /data/<sid> as one container sees it.
NoDir  == [exists |-> FALSE, base |-> "none", state |-> "absent",
           tree |-> EmptyTree, manifest |-> NoRoot]
NewDir == [exists |-> TRUE, base |-> "none", state |-> "empty",
           tree |-> EmptyTree, manifest |-> NoRoot]

\* Request bodies of /prepare.  "invalid" stands for every body that is
\* rejected with 400 before anything is materialized (schema error, unknown
\* input_type, missing repo_url / zip_url / code_snippet, multipart without a
\* .zip file).
P_nodir       == << "x" >>
P_snippet_txt == << "s", "n", "i", "p", "p", "e", "t", ".", "t", "x", "t" >>
P_archive_zip == << "a", "r", "c", "h", "i", "v", "e", ".", "z", "i", "p" >>

SubdirChoices == { << >>, P_dir, P_nodir }

PrepareInputs ==
    { [authorized |-> FALSE, kind |-> "none", subdir |-> << >>] }
    \cup { [authorized |-> TRUE, kind |-> k, subdir |-> << >>] :
        k \in { "github_repo", "zipped_folder", "pasted_code", "multipart", "invalid" } }
    \cup { [authorized |-> TRUE, kind |-> "github_repo_directory", subdir |-> s] :
        s \in SubdirChoices }

\* Folder under work_root that the input kind is materialized into.
BaseOf(kind) ==
    CASE kind \in { "github_repo", "github_repo_directory" } -> "repo"
      [] kind = "zipped_folder" -> "zip"
      [] kind = "pasted_code"   -> "snippet"
      [] kind = "multipart"     -> "upload"

\* Contents the outside world can deliver (repository, archive).
SourceTreeA ==
    (P_B_md :> RegularFile(Bytes6)) @@ (P_d_a_py :> RegularFile(Bytes4))

SourceTrees == { EmptyTree, SourceTreeA }

SnippetBytes == << "h", "i", "\n" >>
ArchiveBytes == << "P", "K", InvalidByte >>

\* The tree below the root folder once materialization succeeded.
MaterializedTree(kind, src) ==
    CASE kind = "zipped_folder" -> (P_archive_zip :> RegularFile(ArchiveBytes)) @@ src
      [] kind = "pasted_code"   -> (P_snippet_txt :> RegularFile(SnippetBytes))
      [] OTHER                  -> src

(***************************************************************************)
(* Paths that leave their folder.  os.path.join(a, b) is b when b is       *)
(* absolute and a/b otherwise, and neither prepare nor                     *)
(* read_selected_bundle normalises the result: the file system resolves    *)
(* "..", so a subdir or a selected path with ".." components or a leading  *)
(* "/" names a place outside the folder it is joined to.  Such paths are   *)
(* resolved over the whole view of a container: /data/src-<id>/<base>/...  *)
(* and /data/src-<id>/manifest.json as sequences of components.            *)
(***************************************************************************)

RECURSIVE SplitFrom(_, _, _, _)
SplitFrom(text, k, cur, acc) ==
    IF k > Len(text) THEN Append(acc, cur)
    ELSE IF text[k] = "/" THEN SplitFrom(text, k + 1, << >>, Append(acc, cur))
    ELSE SplitFrom(text, k + 1, Append(cur, text[k]), acc)

\* text.split("/")
Split(text) == SplitFrom(text, 1, << >>, << >>)

DotDot == << ".", "." >>

IsAbs(text) == text # << >> /\ text[1] = "/"

\* The path has a ".." component or is absolute.
Escaping(text) ==
    \/ IsAbs(text)
    \/ \E k \in 1..Len(text) - 1 :
          /\ text[k] = "." /\ text[k + 1] = "."
          /\ (k = 1 \/ text[k - 1] = "/")
          /\ (k + 1 = Len(text) \/ text[k + 2] = "/")

DataDir      == << "d", "a", "t", "a" >>
ManifestName == << "m", "a", "n", "i", "f", "e", "s", "t", ".", "j", "s", "o", "n" >>
ManifestBytes == << "r", "o", "o", "t", "\n" >>

\* source_id = f"src-{uuid.uuid4().hex[:11]}"
IdDigits == << "1", "2", "3", "4", "5", "6", "7", "8", "9" >>
SidName(sid) == << "s", "r", "c", "-", IdDigits[sid] >>

\* work_root = os.path.join("/data", source_id)
WorkRoot(sid) == << DataDir, SidName(sid) >>

BaseChars(base) ==
    CASE base = "repo"    -> << "r", "e", "p", "o" >>
      [] base = "zip"     -> << "z", "i", "p" >>
      [] base = "snippet" -> << "s", "n", "i", "p", "p", "e", "t" >>
      [] base = "upload"  -> << "u", "p", "l", "o", "a", "d" >>
      [] OTHER            -> << "n", "o", "n", "e" >>

\* The files of a view with their absolute paths.
AbsFiles(dirs) ==
    UNION { { [path |-> WorkRoot(sid) \o << BaseChars(dirs[sid].base) >> \o Split(p),
               file |-> dirs[sid].tree[p]] : p \in DOMAIN dirs[sid].tree }
            \cup ( IF dirs[sid].manifest # NoRoot
                   THEN { [path |-> WorkRoot(sid) \o << ManifestName >>,
                           file |-> RegularFile(ManifestBytes)] }
                   ELSE {} )
            : sid \in { s \in Ids : dirs[s].exists } }

\* The directories of a view: /, /data, the working folders, the folders the
\* materializers made and every folder that holds a file.
AbsDirs(dirs) ==
    { << >>, << DataDir >> }
    \cup { WorkRoot(sid) : sid \in { s \in Ids : dirs[s].exists } }
    \cup { WorkRoot(sid) \o << BaseChars(dirs[sid].base) >> :
             sid \in { s \in Ids : dirs[s].exists /\ dirs[s].state \in { "partial", "full" } } }
    \cup UNION { { SubSeq(f.path, 1, n) : n \in 0..Len(f.path) - 1 } : f \in AbsFiles(dirs) }

\* The place the file system finds for the components from position k on,
\* starting in the directory `at`.
RECURSIVE WalkPath(_, _, _, _)
WalkPath(dirs, at, comps, k) ==
    IF k > Len(comps) THEN [ok |-> TRUE, path |-> at]
    ELSE IF comps[k] \in { << >>, << "." >> } THEN WalkPath(dirs, at, comps, k + 1)
    ELSE IF comps[k] = DotDot
    THEN IF at \notin AbsDirs(dirs) THEN [ok |-> FALSE, path |-> at]
         ELSE WalkPath(dirs, SubSeq(at, 1, Len(at) - 1), comps, k + 1)
    ELSE WalkPath(dirs, Append(at, comps[k]), comps, k + 1)

\* os.path.join(base, text), resolved
JoinPath(dirs, base, text) ==
    WalkPath(dirs, IF IsAbs(text) THEN << >> ELSE base, Split(text), 1)

\* The absolute path of the root of a manifest.
RootPath(dirs, root) ==
    JoinPath(dirs, WorkRoot(root.sid) \o << BaseChars(root.base) >>, root.subdir)

\* The path of a file relative to a directory above it.
RelText(path, dir) == Join(<< "/" >>, SubSeq(path, Len(dir) + 1, Len(path)))

IsPrefix(dir, path) == Len(dir) <= Len(path) /\ SubSeq(path, 1, Len(dir)) = dir

\* os.path.isdir(root) in the view of one container
isdir(dirs, root) ==
    IF Escaping(root.subdir)
    THEN LET r == RootPath(dirs, root) IN r.ok /\ r.path \in AbsDirs(dirs)
    ELSE /\ root.sid \in Ids
         /\ dirs[root.sid].exists
         /\ dirs[root.sid].state = "full"
         /\ dirs[root.sid].base = root.base
         /\ \/ root.subdir = << >>
            \/ \E p \in DOMAIN dirs[root.sid].tree : Under(root.subdir, p)

\* The files below root, by their path relative to root.
TreeAt(dirs, root) ==
    IF Escaping(root.subdir)
    THEN LET at == RootPath(dirs, root).path
             below == { f \in AbsFiles(dirs) : IsPrefix(at, f.path) }
         IN  [ q \in { RelText(f.path, at) : f \in below } |->
                 (CHOOSE f \in below : RelText(f.path, at) = q).file ]
    ELSE LET t == dirs[root.sid].tree
             n == Len(root.subdir)
         IN  IF root.subdir = << >> THEN t
             ELSE [ q \in { SubSeq(p, n + 2, Len(p)) : p \in { r \in DOMAIN t : Under(root.subdir, r) } }
                      |-> t[root.subdir \o << "/" >> \o q] ]

\* What os.path.join(root, rel) reaches for the selected paths: the files
\* below root and, for a selected path that leaves root, the file it
\* resolves to.
SeenFrom(dirs, root, sel) ==
    LET at == RootPath(dirs, root)
        leaving == { rel \in { sel[k] : k \in DOMAIN sel } :
                       /\ Escaping(rel)
                       /\ at.ok
                       /\ JoinPath(dirs, at.path, rel).ok
                       /\ \E f \in AbsFiles(dirs) : f.path = JoinPath(dirs, at.path, rel).path }
    IN  IF leaving = {} THEN TreeAt(dirs, root)
        ELSE [ rel \in leaving |->
                 (CHOOSE f \in AbsFiles(dirs) : f.path = JoinPath(dirs, at.path, rel).path).file ]
             @@ TreeAt(dirs, root)

\* Default filters of /prepare.
Ext(e) == << "*", "*", "/", "*", "." >> \o e
InDir(d) == << "*", "*", "/" >> \o d \o << "/", "*", "*" >>

DefaultInclude ==
    << Ext(<< "p", "y" >>), Ext(<< "t", "s" >>), Ext(<< "j", "s" >>), Ext(<< "g", "o" >>),
       Ext(<< "j", "a", "v", "a" >>), Ext(<< "c", "s" >>), Ext(<< "r", "b" >>),
       Ext(<< "p", "h", "p" >>), Ext(<< "r", "s" >>), Ext(<< "c", "p", "p" >>),
       Ext(<< "c" >>), Ext(<< "m", "d" >>), Ext(<< "t", "x", "t" >>) >>

DefaultExclude ==
    << InDir(<< ".", "g", "i", "t" >>),
       InDir(<< "n", "o", "d", "e", "_", "m", "o", "d", "u", "l", "e", "s" >>),
       InDir(<< ".", "v", "e", "n", "v" >>), InDir(<< "d", "i", "s", "t" >>),
       InDir(<< "b", "u", "i", "l", "d" >>), InDir(<< ".", "c", "a", "c", "h", "e" >>) >>

\* Selections a /summarize caller sends.
SelectionChoices == { << P_d_a_py >>, << P_d_a_py, P_missing >> }

\* volume.commit(): the local changes of the container reach the volume.
Committed(volume, dirs, changed) ==
    [s \in Ids |-> IF s \in changed THEN dirs[s] ELSE volume[s]]

\* Variant of reload that leaves the container with the view it had.
Reloaded_Stale(volume, dirs, changed) == dirs

\* volume.reload(): the container sees the latest committed state (its own
\* uncommitted changes stay in place).
Reloaded(volume, dirs, changed) ==
    [s \in Ids |-> IF s \in changed THEN dirs[s] ELSE volume[s]]

IdleReq ==
    [kind |-> "none", subdir |-> << >>, sid |-> NoId, root |-> NoRoot, files |-> << >>,
     status |-> 0, sel |-> << >>, cleanup |-> FALSE, late |-> FALSE, known |-> FALSE,
     ready |-> FALSE, detail |-> "none"]

(***************************************************************************)
(* _call_llm_sections: the requests to the Groq models and the shaping of  *)
(* the answer                                                              *)
(***************************************************************************)

MaxSections == 2       \* sections of one summarize request

SectionIds == { "a", "b" }
ExtraKey   == "x"

\* max_chars: int | None = None
NoMaxChars == << >>

\* SectionSpec, the fields the shaping reads (ids are unique keys)
SectionSpec(id, type, max_chars) == [id |-> id, type |-> type, max_chars |-> max_chars]

SectionChoices ==
    { SectionSpec(i, t, NoMaxChars) :
        i \in SectionIds, t \in { "markdown", "list", "short_text" } }
    \cup { SectionSpec(i, "short_text", << n >>) : i \in SectionIds, n \in { 0, 1 } }

SectionLists ==
    { s \in UNION { [1..n -> SectionChoices] : n \in 0..MaxSections } :
        \A j, k \in DOMAIN s : j # k => s[j].id # s[k].id }

\* JSON values: a string is its characters, a list its items.
Str(t)    == [kind |-> "str", text |-> t]
List(t)   == [kind |-> "list", text |-> t]
EmptyStr  == Str(<< >>)
EmptyList == List(<< >>)

ValueChoices == { Str(<< "h", "i" >>), List(<< "h" >>) }

\* JSON objects: functions from keys to values.
EmptyObject   == << >>
ObjectChoices == UNION { [K -> ValueChoices] : K \in SUBSET (SectionIds \cup { ExtraKey }) }

\* choices[0].message.content: the text of a JSON object, the text of another
\* JSON value, prose, prose around a JSON object, or nothing (None or "").
Content(form, obj) == [form |-> form, obj |-> obj]
NoContent == Content("none", EmptyObject)

ContentChoices ==
    { Content("object", o) : o \in ObjectChoices }
    \cup { Content("array", EmptyObject), Content("prose", EmptyObject), NoContent,
           Content("embedded", ("a" :> Str(<< "h", "i" >>))) }

\* json.loads(text) succeeds on every JSON text; on other text the fallback
\* pattern uses (?R), which re does not support, so re.search raises, the
\* except clause swallows it and {} is returned, also for prose that
\* contains an object.
_safe_parse_json(text) ==
    CASE text.form = "object" -> [isdict |-> TRUE,  obj |-> text.obj]
      [] text.form = "array"  -> [isdict |-> FALSE, obj |-> EmptyObject]
      [] OTHER                -> [isdict |-> TRUE,  obj |-> EmptyObject]

\* raw = data["choices"][0]["message"]["content"] or "{}"
Raw(content) == IF content.form = "none" THEN Content("object", EmptyObject) ELSE content

\* s.max_chars as a condition
Truthy(max_chars) == max_chars # NoMaxChars /\ max_chars[1] # 0

\* text[:n] for n >= 0
Prefix(text, n) == SubSeq(text, 1, IF n < Len(text) THEN n ELSE Len(text))

Requested(sections) == { sections[k].id : k \in DOMAIN sections }

\* clean = {k: v for k, v in parsed.items() if k in requested}
Filtered(parsed, sections) ==
    [k \in (DOMAIN parsed) \cap Requested(sections) |-> parsed[k]]

\* for s in sections: fill the missing key, cut a short_text string
RECURSIVE FillAndTruncate(_, _, _)
FillAndTruncate(clean, sections, k) ==
    IF k > Len(sections) THEN clean
    ELSE LET s == sections[k]
             filled == IF s.id \in DOMAIN clean THEN clean
                       ELSE clean @@ (s.id :> IF s.type = "list" THEN EmptyList ELSE EmptyStr)
             v == filled[s.id]
             cut == IF s.type = "short_text" /\ Truthy(s.max_chars) /\ v.kind = "str"
                    THEN [filled EXCEPT ![s.id] = Str(Prefix(v.text, s.max_chars[1]))]
                    ELSE filled
         IN  FillAndTruncate(cut, sections, k + 1)

Shaped(parsed, sections) == FillAndTruncate(Filtered(parsed, sections), sections, 1)

\* models_to_try, and range(1, 4)
models_to_try == << "llama3-70b-8192", "llama3-8b-8192", "gemma-7b-it" >>
Attempts == 3

\* What requests.post and the reading of the response can give:
\*   timeout  requests.post raises a RequestException
\*   status   a response with a status other than 200
\*   body     status 200, the body is not JSON
\*   shape    status 200, JSON without choices[0].message.content
\*   content  status 200 and a message content
Reply(kind, content) == [kind |-> kind, content |-> content]

ReplyChoices ==
    { Reply(k, NoContent) : k \in { "timeout", "status", "body", "shape" } }
    \cup { Reply("content", c) : c \in ContentChoices }

\* The clause that handles a reply: "retry" is except RequestException,
\* "break" is the status test or except Exception, "return" the success.
\* resp.json() raises requests.exceptions.JSONDecodeError on a body that is
\* not JSON: a RequestException since requests 2.27, a ValueError before
\* (requirements.txt decides which).
Handlings(reply) ==
    CASE reply.kind = "timeout" -> { "retry" }
      [] reply.kind = "status"  -> { "break" }
      [] reply.kind = "shape"   -> { "break" }
      [] reply.kind = "body"    -> { "retry", "break" }
      [] reply.kind = "content" ->
            IF _safe_parse_json(Raw(reply.content)).isdict THEN { "return" } ELSE { "break" }

LlmIdle ==
    [pc |-> "idle", key |-> FALSE, sections |-> << >>, model |-> 0, attempt |-> 0,
     order |-> << >>, last |-> "none", parsed |-> EmptyObject, result |-> EmptyObject,
     status |-> 0]

(***************************************************************************)
(* collect_all_dependencies (src/file_utils.py): the local modules an      *)
(* entry file imports, directly or through other local modules            *)
(***************************************************************************)

\* The .py files of the project root, by module name, and a name that is
\* imported but is no file of the project root (a library).
Modules       == { "main", "a", "b" }
LibraryModule == "os"
ImportNames   == Modules \cup { LibraryModule }
EntryModule   == "main"

\* os.path.join(project_root, f"{mod}.py")
mod_path(mod) == << "project_root", mod, ".py" >>

\* os.path.exists(os.path.join(project_root, f"{imp}.py"))
exists(mod) == mod \in Modules

\* What ast.parse finds in a file: the top-level names it imports, or a
\* syntax error.
SyntaxError == { "SyntaxError" }
ImportGraphs ==
    { g \in [Modules -> (SUBSET ImportNames) \cup { SyntaxError }] :
        g[EntryModule] # SyntaxError /\ g["a"] # SyntaxError }

\* extract_local_imports: the imported names that are files of the root
extract_local_imports(graph, mod) == { imp \in graph[mod] : exists(imp) }

DepIdle ==
    [pc |-> "idle", graph |-> [m \in Modules |-> {}], visited |-> {}, to_visit |-> << >>,
     analysed |-> << >>]

(***************************************************************************)
(* _require_token_or_401: the bearer token of a request against the        *)
(* SECRET_TOKEN of the deployment                                          *)
(***************************************************************************)

BearerPrefix == << "B", "e", "a", "r", "e", "r", " " >>
Bearer(token) == BearerPrefix \o token

\* SECRET_TOKEN in the environment: unset, empty or a token
Env(set, value) == [set |-> set, value |-> value]
SecretChoices == { Env(FALSE, << >>), Env(TRUE, << >>), Env(TRUE, << "t" >>) }

\* os.getenv("SECRET_TOKEN", "")
getenv(env) == IF env.set THEN env.value ELSE << >>

\* The Authorization header of a request: absent, the right token, a wrong
\* token, the token without the scheme, the scheme without a token.
Header(present, text) == [present |-> present, text |-> text]
NoHeader == Header(FALSE, << >>)
HeaderChoices ==
    { NoHeader, Header(TRUE, Bearer(<< "t" >>)), Header(TRUE, Bearer(<< "u" >>)),
      Header(TRUE, << "t" >>), Header(TRUE, BearerPrefix) }

\* request.headers.get("authorization", "")
HeaderText(header) == IF header.present THEN header.text ELSE << >>

\* str.replace(old, ""): every occurrence of old is removed, left to right
RECURSIVE Remove(_, _)
Remove(s, old) ==
    IF Len(s) < Len(old) THEN s
    ELSE IF SubSeq(s, 1, Len(old)) = old THEN Remove(SubSeq(s, Len(old) + 1, Len(s)), old)
    ELSE << Head(s) >> \o Remove(Tail(s), old)

\* Variant of the check without the test of an empty SECRET_TOKEN.
_require_token_or_401_NoEmptyTest(env, header) ==
    LET expected == getenv(env)
        supplied == Remove(HeaderText(header), BearerPrefix)
    IN  IF supplied # expected THEN 401 ELSE 0

\* The status the check raises, 0 when it lets the request pass.
_require_token_or_401(env, header) ==
    LET expected == getenv(env)
        supplied == Remove(HeaderText(header), BearerPrefix)
    IN  IF expected = << >> \/ supplied # expected THEN 401 ELSE 0

AuthIdle ==
    [secret |-> Env(TRUE, << "t" >>), endpoint |-> "none", header |-> NoHeader, status |-> 0]

(***************************************************************************)
(* The filters and caps of a JSON /prepare request                         *)
(***************************************************************************)

\* Optional fields of PrepareBody: None, or a value
None == << >>
Some(v) == << v >>

BodyChoices ==
    [include_globs   : { None, Some(<< >>), Some(<< G_md >>) },
     exclude_globs   : { None, Some(<< >>), Some(<< G_d_all >>) },
     max_files       : { None, Some(0), Some(1) },
     max_total_bytes : { None, Some(0), Some(9) }]

NoBody ==
    [include_globs |-> None, exclude_globs |-> None, max_files |-> None,
     max_total_bytes |-> None]

\* `x or default` for a list and for an int
OrList(x, default) == IF x = None \/ x[1] = << >> THEN default ELSE x[1]
OrInt(x, default)  == IF x = None \/ x[1] = 0 THEN default ELSE x[1]

(***************************************************************************)
(* State                                                                   *)
(***************************************************************************)

VARIABLES
    tree,           \* the materialized tree under the root being indexed / read
    include_globs,  \* index_files arguments
    exclude_globs,
    max_files,
    max_bytes,
    walk,           \* order of the last os.walk enumeration
    out,            \* list returned by the last index_files call
    prev_out,       \* list returned by the call before it
    calls,          \* number of index_files calls made on this root (0, 1, 2 = two or more)
    selected_paths, \* argument of the last read_selected_bundle call
    bundle,         \* its outcome: returned text or raised error
    vol,            \* committed state of the volume: source id -> working folder
    view,           \* per container: its local view of /data
    dirty,          \* per container: source ids changed locally, not yet committed
    pc,             \* per container: position in the handler it is running
    req,            \* per container: the request being handled and its locals
    nextId,         \* next source id uuid4 hands out
    lastId,         \* the last source id of the behaviour (no prepare after it)
    sess,           \* per source id: unused, preparing, ready, failed400, failed500,
                    \* cancelled, removing (a cleanup has removed the folder in
                    \* its container), destroyed (and committed the removal)
    replies,        \* details of the replies to requests begun after a destroy
    llm,            \* one call of _call_llm_sections: arguments, loop position, outcome
    dep,            \* one call of collect_all_dependencies: files, locals, outcome
    auth,           \* SECRET_TOKEN and the last token check: endpoint, header, status
    body            \* filters and caps of the JSON body of a /prepare request

ixVars == << include_globs, exclude_globs, max_files, max_bytes, walk, out, prev_out, calls >>
bdVars == << selected_paths, bundle >>
auxVars == << llm, dep, auth, body >>
pureVars == << tree, ixVars, bdVars, auxVars >>
sessVars == << vol, view, dirty, pc, req, nextId, lastId, sess, replies >>
vars == << tree, ixVars, bdVars, sessVars, auxVars >>

NotCalled == [ok |-> FALSE, text |-> << >>, error |-> "not called"]

IxIdle ==
    /\ include_globs = << >> /\ exclude_globs = << >>
    /\ max_files = 0 /\ max_bytes = 0
    /\ walk = << >> /\ out = << >> /\ prev_out = << >> /\ calls = 0

BdIdle == selected_paths = << >> /\ bundle = NotCalled

AuxIdle == llm = LlmIdle /\ dep = DepIdle /\ auth = AuthIdle /\ body = NoBody

SessIdle ==
    /\ vol = [s \in Ids |-> NoDir]
    /\ view = [c \in Containers |-> [s \in Ids |-> NoDir]]
    /\ dirty = [c \in Containers |-> {}]
    /\ pc = [c \in Containers |-> "idle"]
    /\ req = [c \in Containers |-> IdleReq]
    /\ nextId = 1
    /\ sess = [s \in Ids |-> "unused"]
    /\ replies = {}

(***************************************************************************)
(* index_files applied to bounded inputs                                   *)
(***************************************************************************)

InitIndex ==
    /\ tree \in Trees
    /\ include_globs \in IncludeChoices
    /\ exclude_globs \in ExcludeChoices
    /\ max_files \in MaxFilesChoices
    /\ max_bytes \in MaxBytesChoices
    /\ walk = << >> /\ out = << >> /\ prev_out = << >> /\ calls = 0
    /\ BdIdle
    /\ SessIdle
    /\ lastId = 0
    /\ AuxIdle

IndexCall ==
    /\ \E w \in WalkOrders(tree) :
          /\ walk' = w
          /\ out' = index_files(tree, w, include_globs, exclude_globs, max_files, max_bytes)
    /\ prev_out' = out
    /\ calls' = IF calls < 2 THEN calls + 1 ELSE 2
    /\ UNCHANGED << tree, include_globs, exclude_globs, max_files, max_bytes, bdVars, sessVars, auxVars >>

NextIndex == IndexCall

SpecIndex == InitIndex /\ [][NextIndex]_vars

(***************************************************************************)
(* read_selected_bundle applied to bounded inputs                          *)
(***************************************************************************)

InitBundle ==
    /\ tree \in Trees
    /\ IxIdle
    /\ BdIdle
    /\ SessIdle
    /\ lastId = 0
    /\ AuxIdle

ReadBundle ==
    /\ \E sel \in Selections :
          /\ selected_paths' = sel
          /\ bundle' = read_selected_bundle(tree, sel)
    /\ UNCHANGED << tree, ixVars, sessVars, auxVars >>

NextBundle == ReadBundle

SpecBundle == InitBundle /\ [][NextBundle]_vars

(***************************************************************************)
(* POST /prepare                                                           *)
(***************************************************************************)

\* The handler returns or raises to the caller; the container is idle again.
Finish(c) ==
    /\ pc' = [pc EXCEPT ![c] = "idle"]
    /\ req' = [req EXCEPT ![c] = IdleReq]

\* raise inside the try block: remember the status, go to the except clauses
FailWith(c, status) ==
    /\ pc' = [pc EXCEPT ![c] = "failed"]
    /\ req' = [req EXCEPT ![c].status = status]

\* The handler past the token check: request.json(), uuid4 and
\* os.makedirs(work_root)
PrepareAccepted(c, input) ==
    /\ nextId \in Ids
    /\ nextId <= lastId
    /\ nextId' = nextId + 1
    /\ UNCHANGED lastId
    /\ view' = [view EXCEPT ![c][nextId] = NewDir]
    /\ dirty' = [dirty EXCEPT ![c] = @ \cup { nextId }]
    /\ req' = [req EXCEPT ![c] = [IdleReq EXCEPT !.kind = input.kind,
                                                  !.subdir = input.subdir,
                                                  !.sid = nextId]]
    /\ pc' = [pc EXCEPT ![c] = "validate"]
    /\ sess' = [sess EXCEPT ![nextId] = "preparing"]
    /\ UNCHANGED << vol, replies >>

\* Variant of the start in which uuid4 hands out the same id again and
\* os.makedirs(work_root, exist_ok=True) accepts the folder that is there.
PrepareStart_ReuseId(c) ==
    /\ pc[c] = "idle"
    /\ \E input \in PrepareInputs :
          /\ input.authorized
          /\ \E id \in Ids :
                /\ id < nextId \/ (id = nextId /\ nextId <= lastId)
                /\ nextId' = IF id = nextId THEN nextId + 1 ELSE nextId
                /\ view' = [view EXCEPT ![c][id] = IF @.exists THEN @ ELSE NewDir]
                /\ dirty' = [dirty EXCEPT ![c] = @ \cup { id }]
                /\ req' = [req EXCEPT ![c] = [IdleReq EXCEPT !.kind = input.kind,
                                                              !.subdir = input.subdir,
                                                              !.sid = id]]
                /\ pc' = [pc EXCEPT ![c] = "validate"]
                /\ sess' = [sess EXCEPT ![id] = IF @ = "unused" THEN "preparing" ELSE @]
    /\ UNCHANGED << vol, lastId, replies >>
    /\ UNCHANGED pureVars

\* _require_token_or_401, request.json(), uuid4 and os.makedirs(work_root)
PrepareStart(c) ==
    /\ pc[c] = "idle"
    /\ \E input \in PrepareInputs :
          IF ~input.authorized
          THEN UNCHANGED << vol, view, dirty, pc, req, nextId, lastId, sess, replies >>
          ELSE PrepareAccepted(c, input)
    /\ UNCHANGED pureVars

\* Variant of the validation that writes manifest.json before the source is
\* materialized.
PrepareValidate_ManifestFirst(c) ==
    /\ pc[c] = "validate"
    /\ IF req[c].kind = "invalid"
       THEN /\ FailWith(c, 400)
            /\ UNCHANGED view
       ELSE /\ view' = [view EXCEPT ![c][req[c].sid] =
                           [@ EXCEPT !.base = BaseOf(req[c].kind), !.state = "partial",
                                     !.manifest = Root(req[c].sid, BaseOf(req[c].kind),
                                                       req[c].subdir)]]
            /\ pc' = [pc EXCEPT ![c] = "materialize"]
            /\ UNCHANGED req
    /\ UNCHANGED << vol, dirty, nextId, lastId, sess, replies >>
    /\ UNCHANGED pureVars

\* Validation of the body; the clone / download / extraction / snippet write
\* starts and populates its folder under work_root.
PrepareValidate(c) ==
    /\ pc[c] = "validate"
    /\ IF req[c].kind = "invalid"
       THEN /\ FailWith(c, 400)
            /\ UNCHANGED view
       ELSE /\ view' = [view EXCEPT ![c][req[c].sid] =
                           [@ EXCEPT !.base = BaseOf(req[c].kind), !.state = "partial"]]
            /\ pc' = [pc EXCEPT ![c] = "materialize"]
            /\ UNCHANGED req
    /\ UNCHANGED << vol, dirty, nextId, lastId, sess, replies >>
    /\ UNCHANGED pureVars

\* Variant of the materialization that takes the subdirectory as root
\* without testing that it is a directory.
PrepareMaterialize_NoSubdirTest(c) ==
    /\ pc[c] = "materialize"
    /\ \/ /\ FailWith(c, 500)
          /\ UNCHANGED view
       \/ \E src \in SourceTrees :
             LET sid   == req[c].sid
                 dirs  == [view[c] EXCEPT ![sid] =
                              [@ EXCEPT !.state = "full",
                                        !.tree = MaterializedTree(req[c].kind, src)]]
                 root  == Root(sid, BaseOf(req[c].kind), req[c].subdir)
             IN  /\ view' = [view EXCEPT ![c] = dirs]
                 /\ req' = [req EXCEPT ![c].root = root]
                 /\ pc' = [pc EXCEPT ![c] = "index"]
    /\ UNCHANGED << vol, dirty, nextId, lastId, sess, replies >>
    /\ UNCHANGED pureVars

\* clone_repo / download_and_extract_zip / extract_zip_file /
\* write_snippet_temp returns or raises; the root is chosen and, for a
\* repository, tested with os.path.isdir.
PrepareMaterialize(c) ==
    /\ pc[c] = "materialize"
    /\ \/ /\ FailWith(c, 500)
          /\ UNCHANGED view
       \/ \E src \in SourceTrees :
             LET sid   == req[c].sid
                 dirs  == [view[c] EXCEPT ![sid] =
                              [@ EXCEPT !.state = "full",
                                        !.tree = MaterializedTree(req[c].kind, src)]]
                 root  == Root(sid, BaseOf(req[c].kind), req[c].subdir)
             IN  /\ view' = [view EXCEPT ![c] = dirs]
                 /\ IF req[c].kind \in { "github_repo", "github_repo_directory" }
                       /\ ~isdir(dirs, root)
                    THEN FailWith(c, 400)
                    ELSE /\ req' = [req EXCEPT ![c].root = root]
                         /\ pc' = [pc EXCEPT ![c] = "index"]
    /\ UNCHANGED << vol, dirty, nextId, lastId, sess, replies >>
    /\ UNCHANGED pureVars

\* Variant of the indexing step that rejects a source without any listed
\* file.
PrepareIndex_RejectEmpty(c) ==
    /\ pc[c] = "index"
    /\ \E w \in WalkOrdersOf(DOMAIN TreeAt(view[c], req[c].root)) :
          LET files == index_files(TreeAt(view[c], req[c].root), w,
                                   DefaultInclude, DefaultExclude,
                                   DefaultMaxFiles, DefaultMaxBytes)
          IN  IF files = << >>
              THEN FailWith(c, 400)
              ELSE /\ req' = [req EXCEPT ![c].files = files]
                   /\ pc' = [pc EXCEPT ![c] = "manifest"]
    /\ UNCHANGED << vol, view, dirty, nextId, lastId, sess, replies >>
    /\ UNCHANGED pureVars

\* Variant of the indexing step that removes the files it has listed.
PrepareIndex_Consumes(c) ==
    /\ pc[c] = "index"
    /\ \E w \in WalkOrdersOf(DOMAIN TreeAt(view[c], req[c].root)) :
          req' = [req EXCEPT ![c].files =
                     index_files(TreeAt(view[c], req[c].root), w,
                                 DefaultInclude, DefaultExclude,
                                 DefaultMaxFiles, DefaultMaxBytes)]
    /\ view' = [view EXCEPT ![c][req[c].sid].tree = EmptyTree]
    /\ pc' = [pc EXCEPT ![c] = "manifest"]
    /\ UNCHANGED << vol, dirty, nextId, lastId, sess, replies >>
    /\ UNCHANGED pureVars

\* files = index_files(root, include, exclude, max_files, max_bytes)
PrepareIndex(c) ==
    /\ pc[c] = "index"
    /\ \E w \in WalkOrdersOf(DOMAIN TreeAt(view[c], req[c].root)) :
          req' = [req EXCEPT ![c].files =
                     index_files(TreeAt(view[c], req[c].root), w,
                                 DefaultInclude, DefaultExclude,
                                 DefaultMaxFiles, DefaultMaxBytes)]
    /\ pc' = [pc EXCEPT ![c] = "manifest"]
    /\ UNCHANGED << vol, view, dirty, nextId, lastId, sess, replies >>
    /\ UNCHANGED pureVars

\* json.dump({"root": root}) into work_root/manifest.json, or OSError
PrepareManifest(c) ==
    /\ pc[c] = "manifest"
    /\ \/ /\ view' = [view EXCEPT ![c][req[c].sid].manifest = req[c].root]
          /\ pc' = [pc EXCEPT ![c] = "commit"]
          /\ UNCHANGED req
       \/ /\ FailWith(c, 500)
          /\ UNCHANGED view
    /\ UNCHANGED << vol, dirty, nextId, lastId, sess, replies >>
    /\ UNCHANGED pureVars

\* Variant of the handler that answers without committing the volume.
PrepareCommit_NoCommit(c) ==
    /\ pc[c] = "commit"
    /\ pc' = [pc EXCEPT ![c] = "respond"]
    /\ UNCHANGED << vol, view, dirty, req, nextId, lastId, sess, replies >>
    /\ UNCHANGED pureVars

\* volume.commit(), or an error raised by it
PrepareCommit(c) ==
    /\ pc[c] = "commit"
    /\ \/ /\ vol' = Committed(vol, view[c], dirty[c])
          /\ dirty' = [dirty EXCEPT ![c] = {}]
          /\ pc' = [pc EXCEPT ![c] = "respond"]
          /\ UNCHANGED req
       \/ /\ FailWith(c, 500)
          /\ UNCHANGED << vol, dirty >>
    /\ UNCHANGED << view, nextId, lastId, sess, replies >>
    /\ UNCHANGED pureVars

\* return {"source_id": source_id, "files": files}
PrepareRespond(c) ==
    /\ pc[c] = "respond"
    /\ Finish(c)
    /\ sess' = [sess EXCEPT ![req[c].sid] = IF @ = "preparing" THEN "ready" ELSE @]
    /\ UNCHANGED << vol, view, dirty, nextId, lastId, replies >>
    /\ UNCHANGED pureVars

\* The function timeout (300 s) or a cancellation ends the request while the
\* clone, download, upload or extraction is under way.  The handler is left
\* through asyncio.CancelledError (a BaseException) or the container's input
\* is stopped: neither "except HTTPException" nor "except Exception" runs,
\* so the working folder stays as it is in the container's view.
PrepareCancel(c) ==
    /\ pc[c] = "materialize"
    /\ Finish(c)
    /\ sess' = [sess EXCEPT ![req[c].sid] = "cancelled"]
    /\ UNCHANGED << vol, view, dirty, nextId, lastId, replies >>
    /\ UNCHANGED pureVars

\* Variant of the except clauses that removes /data instead of work_root.
PrepareFail_RmtreeData(c) ==
    /\ pc[c] = "failed"
    /\ view' = [view EXCEPT ![c] = [s \in Ids |-> NoDir]]
    /\ dirty' = [dirty EXCEPT ![c] = { s \in Ids : view[c][s].exists } \ { req[c].sid }]
    /\ Finish(c)
    /\ sess' = [sess EXCEPT ![req[c].sid] = IF req[c].status = 400 THEN "failed400" ELSE "failed500"]
    /\ UNCHANGED << vol, nextId, lastId, replies >>
    /\ UNCHANGED pureVars

\* Variant of the except clauses that leaves the working folder in place.
PrepareFail_NoRmtree(c) ==
    /\ pc[c] = "failed"
    /\ Finish(c)
    /\ sess' = [sess EXCEPT ![req[c].sid] = IF req[c].status = 400 THEN "failed400" ELSE "failed500"]
    /\ UNCHANGED << vol, view, dirty, nextId, lastId, replies >>
    /\ UNCHANGED pureVars

\* The except clauses: shutil.rmtree(work_root, ignore_errors=True), then the
\* error goes to the caller (HTTPException as is, anything else as 500).
PrepareFail(c) ==
    /\ pc[c] = "failed"
    /\ view' = [view EXCEPT ![c][req[c].sid] = NoDir]
    /\ dirty' = [dirty EXCEPT ![c] = @ \ { req[c].sid }]
    /\ Finish(c)
    /\ sess' = [sess EXCEPT ![req[c].sid] = IF req[c].status = 400 THEN "failed400" ELSE "failed500"]
    /\ UNCHANGED << vol, nextId, lastId, replies >>
    /\ UNCHANGED pureVars

(***************************************************************************)
(* POST /summarize                                                         *)
(***************************************************************************)

Outcome(status, detail, text) == [status |-> status, detail |-> detail, text |-> text]

\* detail of the 400 raised when work_root/manifest.json is not a file
UnknownSession == "unknown source_id or expired"

\* detail of the 400 raised when the root of the manifest is not a directory
SourceMissing == "prepared source is missing"

\* Variant of the resolution that goes on to the manifest's root without
\* testing that manifest.json is a file.
Resolve_NoManifestTest(dirs, sid, sel) ==
    LET d == dirs[sid]
    IN  IF ~isdir(dirs, d.manifest)
        THEN Outcome(400, SourceMissing, << >>)
        ELSE LET b == read_selected_bundle(SeenFrom(dirs, d.manifest, sel), sel)
             IN  IF ~b.ok THEN Outcome(500, b.error, << >>)
                 ELSE Outcome(200, "bundle", b.text)

\* Steps 4 to 6 of the handler on the reloaded view: the manifest test, the
\* os.path.isdir(root) test and read_selected_bundle.  FileNotFoundError is
\* not caught by the handler and reaches the caller as a 500.
Resolve(dirs, sid, sel) ==
    LET d == dirs[sid]
    IN  IF ~(d.exists /\ d.manifest # NoRoot)
        THEN Outcome(400, UnknownSession, << >>)
        ELSE IF ~isdir(dirs, d.manifest)
        THEN Outcome(400, SourceMissing, << >>)
        ELSE LET b == read_selected_bundle(SeenFrom(dirs, d.manifest, sel), sel)
             IN  IF ~b.ok THEN Outcome(500, b.error, << >>)
                 ELSE Outcome(200, "bundle", b.text)

\* Requests of /summarize: without a valid token, with a body that is not
\* JSON or not a SummarizeBody, or authorized and well-formed.
SummarizeInputs ==
    { [authorized |-> FALSE, wellformed |-> TRUE, sid |-> NoId, sel |-> << >>, cleanup |-> FALSE],
      [authorized |-> TRUE, wellformed |-> FALSE, sid |-> NoId, sel |-> << >>, cleanup |-> FALSE] }
    \cup { [authorized |-> TRUE, wellformed |-> TRUE, sid |-> s, sel |-> x, cleanup |-> b] :
              s \in Ids, x \in SelectionChoices, b \in BOOLEAN }

\* The handler past the token check: volume.reload(), request.json(),
\* SummarizeBody, then the session is located and the bundle is read.  The
\* request keeps
\* what held of its session when it began: known (the manifest of the id was
\* in the committed volume and not removed by this very container), ready (a
\* prepare had returned success for the id and no cleanup had removed it) and
\* late (the session had been destroyed).
SummarizeAccepted(c, input) ==
    LET dirs == Reloaded(vol, view[c], dirty[c])
    IN  /\ view' = [view EXCEPT ![c] = dirs]
        /\ IF ~input.wellformed
           THEN UNCHANGED << pc, req, replies >>
           ELSE LET sid   == input.sid
                    late  == (sess[sid] = "destroyed")
                    known == /\ vol[sid].exists
                             /\ vol[sid].manifest # NoRoot
                             /\ sid \notin dirty[c]
                    ready == sess[sid] = "ready" /\ sid \notin dirty[c]
                    res   == Resolve(dirs, sid, input.sel)
                IN  IF res.status # 200
                    THEN /\ replies' = IF late THEN replies \cup { res.detail }
                                               ELSE replies
                         /\ req' = [req EXCEPT ![c] =
                                       [IdleReq EXCEPT !.kind = "summarize",
                                                       !.status = res.status,
                                                       !.detail = res.detail,
                                                       !.known = known,
                                                       !.ready = ready]]
                         /\ pc' = [pc EXCEPT ![c] = "refused"]
                    ELSE /\ req' = [req EXCEPT ![c] =
                                       [IdleReq EXCEPT !.kind = "summarize", !.sid = sid,
                                                       !.sel = input.sel,
                                                       !.cleanup = input.cleanup,
                                                       !.late = late, !.known = known,
                                                       !.files = res.text]]
                         /\ pc' = [pc EXCEPT ![c] = "llm"]
                         /\ UNCHANGED replies

\* _require_token_or_401, then the rest of the handler up to the bundle
SummarizeStart(c) ==
    /\ pc[c] = "idle"
    /\ \E input \in SummarizeInputs :
          IF ~input.authorized
          THEN UNCHANGED << view, pc, req, replies >>
          ELSE SummarizeAccepted(c, input)
    /\ UNCHANGED << vol, dirty, nextId, lastId, sess >>
    /\ UNCHANGED pureVars

\* raise HTTPException(400, ...) or the uncaught FileNotFoundError reaches the
\* caller; nothing was written.
SummarizeRefuse(c) ==
    /\ pc[c] = "refused"
    /\ Finish(c)
    /\ UNCHANGED << vol, view, dirty, nextId, lastId, sess, replies >>
    /\ UNCHANGED pureVars

\* Variant of the handler that removes the working folder whenever cleanup
\* is set, also when _call_llm_sections raised.
SummarizeLLM_CleansOnError(c) ==
    /\ pc[c] = "llm"
    /\ \/ /\ ~req[c].cleanup
          /\ Finish(c)
          /\ UNCHANGED << view, dirty, sess >>
       \/ /\ req[c].cleanup
          /\ view' = [view EXCEPT ![c][req[c].sid] = NoDir]
          /\ dirty' = [dirty EXCEPT ![c] = @ \cup { req[c].sid }]
          /\ sess' = [sess EXCEPT ![req[c].sid] = IF @ \in { "preparing", "ready" } THEN "removing" ELSE @]
          /\ \/ pc' = [pc EXCEPT ![c] = "commit"] /\ UNCHANGED req
             \/ Finish(c)
    /\ UNCHANGED << vol, nextId, lastId, replies >>
    /\ UNCHANGED pureVars

\* _call_llm_sections returns the sections or raises (500 without API key,
\* 502 when every attempt failed); with cleanup the working folder is then
\* removed by shutil.rmtree(work_root, ignore_errors=True).
SummarizeLLM(c) ==
    /\ pc[c] = "llm"
    /\ \/ /\ Finish(c)                  \* raised: 500 or 502, nothing deleted
          /\ UNCHANGED << view, dirty, sess >>
       \/ /\ ~req[c].cleanup            \* returned, cleanup false: 200
          /\ Finish(c)
          /\ UNCHANGED << view, dirty, sess >>
       \/ /\ req[c].cleanup
          /\ view' = [view EXCEPT ![c][req[c].sid] = NoDir]
          /\ dirty' = [dirty EXCEPT ![c] = @ \cup { req[c].sid }]
          /\ sess' = [sess EXCEPT ![req[c].sid] = IF @ \in { "preparing", "ready" } THEN "removing" ELSE @]
          /\ pc' = [pc EXCEPT ![c] = "commit"]
          /\ UNCHANGED req
    /\ UNCHANGED << vol, nextId, lastId, replies >>
    /\ UNCHANGED pureVars

\* Variant of the cleanup that answers 200 without committing the deletion.
SummarizeCommit_NoCommit(c) ==
    /\ pc[c] = "commit"
    /\ \/ sess' = [sess EXCEPT ![req[c].sid] = "destroyed"]
       \/ UNCHANGED sess
    /\ Finish(c)
    /\ UNCHANGED << vol, view, dirty, nextId, lastId, replies >>
    /\ UNCHANGED pureVars

\* volume.commit() of the deletion, then the 200 response; or commit raises
\* and the caller gets a 500.
SummarizeCommit(c) ==
    /\ pc[c] = "commit"
    /\ \/ /\ vol' = Committed(vol, view[c], dirty[c])
          /\ dirty' = [dirty EXCEPT ![c] = {}]
          /\ sess' = [sess EXCEPT ![req[c].sid] = "destroyed"]
       \/ UNCHANGED << vol, dirty, sess >>
    /\ Finish(c)
    /\ UNCHANGED << view, nextId, lastId, replies >>
    /\ UNCHANGED pureVars

Init ==
    /\ SessIdle
    /\ lastId = MaxSessions
    /\ tree = EmptyTree
    /\ IxIdle
    /\ BdIdle
    /\ AuxIdle

Next ==
    \/ \E c \in PrepContainers :
          \/ PrepareStart(c)
          \/ PrepareValidate(c)
          \/ PrepareMaterialize(c)
          \/ PrepareIndex(c)
          \/ PrepareManifest(c)
          \/ PrepareCommit(c)
          \/ PrepareRespond(c)
          \/ PrepareFail(c)
          \/ PrepareCancel(c)
    \/ \E c \in SumContainers :
          \/ SummarizeStart(c)
          \/ SummarizeRefuse(c)
          \/ SummarizeLLM(c)
          \/ SummarizeCommit(c)

Spec == Init /\ [][Next]_vars

(***************************************************************************)
(* index_files as /prepare calls it: the default filters and caps, applied *)
(* to trees with the directories the default exclude list names.           *)
(***************************************************************************)

P_dist_a_js   == << "d", "i", "s", "t", "/", "a", ".", "j", "s" >>
P_d_dist_a_js == << "d", "/", "d", "i", "s", "t", "/", "a", ".", "j", "s" >>
P_git_c_md    == << ".", "g", "i", "t", "/", "c", ".", "m", "d" >>

DefaultPathUniverse ==
    { P_a_py, P_d_a_py, P_snippet_txt, P_dist_a_js, P_d_dist_a_js, P_git_c_md }

DefaultTrees ==
    UNION { [S -> { RegularFile(Bytes4) }] :
              S \in { T \in SUBSET DefaultPathUniverse : Cardinality(T) <= MaxTreeFiles } }

InitDefaults ==
    /\ tree \in DefaultTrees
    /\ include_globs = DefaultInclude
    /\ exclude_globs = DefaultExclude
    /\ max_files = DefaultMaxFiles
    /\ max_bytes = DefaultMaxBytes
    /\ walk = << >> /\ out = << >> /\ prev_out = << >> /\ calls = 0
    /\ BdIdle
    /\ SessIdle
    /\ lastId = 0
    /\ AuxIdle

\* files = index_files(root, include, exclude, 500, 20_000_000)
IndexDefaults ==
    /\ \E w \in WalkOrdersOf(DOMAIN tree) :
          /\ walk' = w
          /\ out' = index_files(tree, w, include_globs, exclude_globs, max_files, max_bytes)
    /\ prev_out' = out
    /\ calls' = IF calls < 2 THEN calls + 1 ELSE 2
    /\ UNCHANGED << tree, include_globs, exclude_globs, max_files, max_bytes, bdVars, sessVars, auxVars >>

NextDefaults == IndexDefaults

SpecDefaults == InitDefaults /\ [][NextDefaults]_vars

(***************************************************************************)
(* The prepare function scaled to two containers that serve requests at    *)
(* the same time.                                                          *)
(***************************************************************************)

InitPrepare ==
    /\ SessIdle
    /\ lastId = ConcurrentPrepares
    /\ tree = EmptyTree
    /\ IxIdle
    /\ BdIdle
    /\ AuxIdle

NextPrepare ==
    \E c \in ConcurrentPrepContainers :
        \/ PrepareStart(c)
        \/ PrepareValidate(c)
        \/ PrepareMaterialize(c)
        \/ PrepareIndex(c)
        \/ PrepareManifest(c)
        \/ PrepareCommit(c)
        \/ PrepareRespond(c)
        \/ PrepareFail(c)
        \/ PrepareCancel(c)

SpecPrepare == InitPrepare /\ [][NextPrepare]_vars

(***************************************************************************)
(* One call of _call_llm_sections                                          *)
(***************************************************************************)

InitLLM ==
    /\ llm \in { [LlmIdle EXCEPT !.pc = "call", !.key = k, !.sections = s] :
                   k \in BOOLEAN, s \in SectionLists }
    /\ dep = DepIdle
    /\ auth = AuthIdle
    /\ body = NoBody
    /\ tree = EmptyTree
    /\ IxIdle
    /\ BdIdle
    /\ SessIdle
    /\ lastId = 0

\* if not GROQ_API_KEY: raise HTTPException(500); otherwise the first
\* attempt with the first model
LLMEnter ==
    /\ llm.pc = "call"
    /\ llm' = IF ~llm.key
              THEN [llm EXCEPT !.pc = "raised", !.status = 500]
              ELSE [llm EXCEPT !.pc = "post", !.model = 1, !.attempt = 1]
    /\ UNCHANGED << tree, ixVars, bdVars, sessVars, dep, auth, body >>

\* The inner loop is left: the next model, or the 502 after the last one.
NextModel(l) ==
    IF l.model = Len(models_to_try)
    THEN [l EXCEPT !.pc = "raised", !.status = 502]
    ELSE [l EXCEPT !.model = @ + 1, !.attempt = 1]

\* One iteration of the inner loop: a request and the handling of its reply.
LLMPost ==
    /\ llm.pc = "post"
    /\ \E reply \in ReplyChoices : \E h \in Handlings(reply) :
          LET parsed == _safe_parse_json(Raw(reply.content))
              sent == [llm EXCEPT !.order = Append(@, llm.model),
                                  !.last = IF reply.kind # "content" THEN reply.kind
                                           ELSE IF h = "return" THEN "success"
                                           ELSE "not_object"]
          IN  llm' = CASE h = "return" ->
                            [sent EXCEPT !.pc = "returned", !.parsed = parsed.obj,
                                         !.result = Shaped(parsed.obj, llm.sections)]
                       [] h = "break" -> NextModel(sent)
                       [] h = "retry" ->
                            IF llm.attempt < Attempts
                            THEN [sent EXCEPT !.attempt = @ + 1]
                            ELSE NextModel(sent)
    /\ UNCHANGED << tree, ixVars, bdVars, sessVars, dep, auth, body >>

NextLLM == LLMEnter \/ LLMPost

SpecLLM == InitLLM /\ [][NextLLM]_vars

\* The function runs to its end: no step of it waits for anything but the
\* reply, and requests.post has a timeout.
SpecLLMFair == SpecLLM /\ WF_vars(NextLLM)

(***************************************************************************)
(* One call of collect_all_dependencies                                    *)
(***************************************************************************)

InitDeps ==
    /\ dep \in { [DepIdle EXCEPT !.pc = "loop", !.graph = g,
                                 !.to_visit = << mod_path(EntryModule) >>] :
                   g \in ImportGraphs }
    /\ llm = LlmIdle
    /\ auth = AuthIdle
    /\ body = NoBody
    /\ tree = EmptyTree
    /\ IxIdle
    /\ BdIdle
    /\ SessIdle
    /\ lastId = 0

ModuleOf(path) == path[2]

\* Variant of the loop body without the test of visited.
DepIterate_NoVisitedTest ==
    /\ dep.pc = "loop"
    /\ dep.to_visit # << >>
    /\ LET current_path == dep.to_visit[Len(dep.to_visit)]
           popped == SubSeq(dep.to_visit, 1, Len(dep.to_visit) - 1)
           current == ModuleOf(current_path)
       IN  IF dep.graph[current] = SyntaxError
           THEN dep' = [dep EXCEPT !.pc = "raised", !.to_visit = popped,
                                   !.visited = @ \cup { current_path },
                                   !.analysed = Append(@, current_path)]
           ELSE \E ord \in Orderings(extract_local_imports(dep.graph, current)) :
                   dep' = [dep EXCEPT
                             !.visited = @ \cup { current_path },
                             !.analysed = Append(@, current_path),
                             !.to_visit = popped \o [k \in DOMAIN ord |-> mod_path(ord[k])]]
    /\ UNCHANGED << tree, ixVars, bdVars, sessVars, llm, auth, body >>

\* One iteration of `while to_visit`: pop, skip a visited path, otherwise
\* analyse the file and push its local imports that are not visited (a set,
\* iterated in any order).
DepIterate ==
    /\ dep.pc = "loop"
    /\ dep.to_visit # << >>
    /\ LET current_path == dep.to_visit[Len(dep.to_visit)]
           popped == SubSeq(dep.to_visit, 1, Len(dep.to_visit) - 1)
           current == ModuleOf(current_path)
           visited == dep.visited \cup { current_path }
       IN  IF current_path \in dep.visited
           THEN dep' = [dep EXCEPT !.to_visit = popped]
           ELSE IF dep.graph[current] = SyntaxError
           THEN dep' = [dep EXCEPT !.pc = "raised", !.to_visit = popped,
                                   !.visited = visited,
                                   !.analysed = Append(@, current_path)]
           ELSE \E ord \in Orderings({ mod \in extract_local_imports(dep.graph, current) :
                                         exists(mod) /\ mod_path(mod) \notin visited }) :
                   dep' = [dep EXCEPT
                             !.visited = visited,
                             !.analysed = Append(@, current_path),
                             !.to_visit = popped \o [k \in DOMAIN ord |-> mod_path(ord[k])]]
    /\ UNCHANGED << tree, ixVars, bdVars, sessVars, llm, auth, body >>

\* to_visit is empty: return visited
DepReturn ==
    /\ dep.pc = "loop"
    /\ dep.to_visit = << >>
    /\ dep' = [dep EXCEPT !.pc = "returned"]
    /\ UNCHANGED << tree, ixVars, bdVars, sessVars, llm, auth, body >>

NextDeps == DepIterate \/ DepReturn

SpecDeps == InitDeps /\ [][NextDeps]_vars

\* Nothing in the loop waits: it runs until it returns or raises.
SpecDepsFair == SpecDeps /\ WF_vars(NextDeps)

(***************************************************************************)
(* Both endpoints with the token check spelled out: one prepare container  *)
(* and one summarize container, any SECRET_TOKEN, any Authorization header *)
(***************************************************************************)

AuthPrepContainers == { "p1" }
AuthSumContainers  == { "s1" }

InitAuth ==
    /\ SessIdle
    /\ lastId = Cardinality(AuthPrepContainers)
    /\ auth \in { [AuthIdle EXCEPT !.secret = e] : e \in SecretChoices }
    /\ llm = LlmIdle
    /\ dep = DepIdle
    /\ body = NoBody
    /\ tree = EmptyTree
    /\ IxIdle
    /\ BdIdle

\* prepare: _require_token_or_401(request) is the first statement
AuthPrepare(c) ==
    /\ pc[c] = "idle"
    /\ \E header \in HeaderChoices :
          LET status == _require_token_or_401(auth.secret, header)
          IN  /\ auth' = [auth EXCEPT !.endpoint = "prepare", !.header = header,
                                      !.status = status]
              /\ IF status = 401
                 THEN UNCHANGED sessVars
                 ELSE \E input \in PrepareInputs :
                         input.authorized /\ PrepareAccepted(c, input)
    /\ UNCHANGED << tree, ixVars, bdVars, llm, dep, body >>

\* summarize: _require_token_or_401(request) is the first statement
AuthSummarize(c) ==
    /\ pc[c] = "idle"
    /\ \E header \in HeaderChoices :
          LET status == _require_token_or_401(auth.secret, header)
          IN  /\ auth' = [auth EXCEPT !.endpoint = "summarize", !.header = header,
                                      !.status = status]
              /\ IF status = 401
                 THEN UNCHANGED sessVars
                 ELSE /\ \E input \in SummarizeInputs :
                            input.authorized /\ SummarizeAccepted(c, input)
                      /\ UNCHANGED << vol, dirty, nextId, lastId, sess >>
    /\ UNCHANGED << tree, ixVars, bdVars, llm, dep, body >>

NextAuth ==
    \/ \E c \in AuthPrepContainers :
          \/ AuthPrepare(c)
          \/ PrepareValidate(c)
          \/ PrepareMaterialize(c)
          \/ PrepareIndex(c)
          \/ PrepareManifest(c)
          \/ PrepareCommit(c)
          \/ PrepareRespond(c)
          \/ PrepareFail(c)
          \/ PrepareCancel(c)
    \/ \E c \in AuthSumContainers :
          \/ AuthSummarize(c)
          \/ SummarizeRefuse(c)
          \/ SummarizeLLM(c)
          \/ SummarizeCommit(c)

SpecAuth == InitAuth /\ [][NextAuth]_vars

(***************************************************************************)
(* The indexing step of a JSON /prepare request whose body names filters   *)
(* and caps                                                                *)
(***************************************************************************)

\* Trees of a repository: a source file in a folder, a document at the top
\* and a build product.
FilterTrees ==
    UNION { [S -> { RegularFile(Bytes4), RegularFile(Bytes6) }] :
              S \in SUBSET { P_d_a_py, P_B_md, P_d_dist_a_js } }

InitFilters ==
    /\ tree \in FilterTrees
    /\ body \in BodyChoices
    /\ IxIdle
    /\ BdIdle
    /\ SessIdle
    /\ lastId = 0
    /\ llm = LlmIdle
    /\ dep = DepIdle
    /\ auth = AuthIdle

\* include = prepared_body.include_globs or [...]; exclude likewise;
\* index_files(root, include, exclude, max_files or 500,
\* max_total_bytes or 20_000_000)
PrepareIndexJson ==
    /\ include_globs' = OrList(body.include_globs, DefaultInclude)
    /\ exclude_globs' = OrList(body.exclude_globs, DefaultExclude)
    /\ max_files' = OrInt(body.max_files, DefaultMaxFiles)
    /\ max_bytes' = OrInt(body.max_total_bytes, DefaultMaxBytes)
    /\ \E w \in WalkOrdersOf(DOMAIN tree) :
          /\ walk' = w
          /\ out' = index_files(tree, w, include_globs', exclude_globs', max_files', max_bytes')
    /\ prev_out' = out
    /\ calls' = IF calls < 2 THEN calls + 1 ELSE 2
    /\ UNCHANGED << tree, bdVars, sessVars, auxVars >>

NextFilters == PrepareIndexJson

SpecFilters == InitFilters /\ [][NextFilters]_vars

(***************************************************************************)
(* Both endpoints with requests whose subdir or selected paths leave their *)
(* folder: one prepare container, one summarize container                  *)
(***************************************************************************)

MaxTraversals == 2     \* prepare requests in one behaviour

T_up          == << ".", "." >>
T_up2         == << ".", ".", "/", ".", "." >>
T_data        == << "/" >> \o DataDir
T_up_manifest == << ".", ".", "/" >> \o ManifestName
T_manifest_1  == << "/" >> \o Join(<< "/" >>, WorkRoot(1) \o << ManifestName >>)

TraversalPrepareInputs ==
    { [authorized |-> TRUE, kind |-> "github_repo", subdir |-> << >>] }
    \cup { [authorized |-> TRUE, kind |-> "github_repo_directory", subdir |-> s] :
             s \in { P_dir, T_up, T_up2, T_data } }

TraversalSelections ==
    { << P_B_md >>, << T_up_manifest >>, << T_manifest_1 >>, << P_B_md, T_up_manifest >> }

TraversalSummarizeInputs ==
    { [authorized |-> TRUE, wellformed |-> TRUE, sid |-> s, sel |-> x, cleanup |-> b] :
        s \in Ids, x \in TraversalSelections, b \in BOOLEAN }

InitTraversal ==
    /\ SessIdle
    /\ lastId = MaxTraversals
    /\ tree = EmptyTree
    /\ IxIdle
    /\ BdIdle
    /\ AuxIdle

\* prepare, begun by an authorized request
PrepareStartTraversal(c) ==
    /\ pc[c] = "idle"
    /\ \E input \in TraversalPrepareInputs : PrepareAccepted(c, input)
    /\ UNCHANGED pureVars

\* summarize, begun by an authorized request
SummarizeStartTraversal(c) ==
    /\ pc[c] = "idle"
    /\ \E input \in TraversalSummarizeInputs : SummarizeAccepted(c, input)
    /\ UNCHANGED << vol, dirty, nextId, lastId, sess >>
    /\ UNCHANGED pureVars

NextTraversal ==
    \/ \E c \in AuthPrepContainers :
          \/ PrepareStartTraversal(c)
          \/ PrepareValidate(c)
          \/ PrepareMaterialize(c)
          \/ PrepareIndex(c)
          \/ PrepareManifest(c)
          \/ PrepareCommit(c)
          \/ PrepareRespond(c)
          \/ PrepareFail(c)
          \/ PrepareCancel(c)
    \/ \E c \in AuthSumContainers :
          \/ SummarizeStartTraversal(c)
          \/ SummarizeRefuse(c)
          \/ SummarizeLLM(c)
          \/ SummarizeCommit(c)

SpecTraversal == InitTraversal /\ [][NextTraversal]_vars

(***************************************************************************)
(* Properties of index_files (checked under SpecIndex)                     *)
(***************************************************************************)

OutPaths == { out[k].path : k \in 1..Len(out) }

\* The files of the tree that pass the glob filter and have a readable size.
CandidateSet ==
    { p \in DOMAIN tree : /\ ~MatchesAny(p, exclude_globs)
                          /\ (include_globs = << >> \/ MatchesAny(p, include_globs))
                          /\ tree[p].kind = "file" }

RECURSIVE SumOver(_, _)
SumOver(S, t) ==
    IF S = {} THEN 0
    ELSE LET p == CHOOSE q \in S : TRUE IN Len(t[p].bytes) + SumOver(S \ {p}, t)

RECURSIVE SumSizes(_)
SumSizes(entries) ==
    IF entries = << >> THEN 0 ELSE Head(entries).size + SumSizes(Tail(entries))

IsAscending(w) == \A k \in 1..(Len(w) - 1) : StrLess(w[k], w[k + 1])

\* C1: no path returned by index_files matches an exclude pattern, whether
\* or not it also matches an include pattern.
C1_ExcludePrecedence ==
    calls >= 1 => \A k \in 1..Len(out) : ~MatchesAny(out[k].path, exclude_globs)

\* A call that returned files although some file of the tree matches both an
\* include and an exclude pattern.
C1_Witness ==
    /\ calls >= 1
    /\ out # << >>
    /\ include_globs # << >>
    /\ \E p \in DOMAIN tree :
          /\ tree[p].kind = "file"
          /\ MatchesAny(p, include_globs)
          /\ MatchesAny(p, exclude_globs)

\* C2: with an empty include list and caps that do not bite, the returned
\* paths are exactly the files with a readable size that match no exclude
\* pattern.
C2_EmptyIncludeAcceptsAll ==
    ( /\ calls >= 1
      /\ include_globs = << >>
      /\ max_files >= Cardinality(DOMAIN tree)
      /\ max_bytes >= SumOver(DOMAIN tree, tree) )
    => OutPaths = { p \in DOMAIN tree :
                      ~MatchesAny(p, exclude_globs) /\ tree[p].kind = "file" }

\* An empty include list, a non-empty exclude list that excludes one file and
\* keeps another, and big caps.
C2_Witness ==
    /\ calls >= 1
    /\ include_globs = << >>
    /\ exclude_globs # << >>
    /\ max_files = DefaultMaxFiles /\ max_bytes = DefaultMaxBytes
    /\ \E p, q \in DOMAIN tree :
          /\ MatchesAny(p, exclude_globs)
          /\ ~MatchesAny(q, exclude_globs) /\ tree[q].kind = "file"
          /\ q \in OutPaths

\* C3: the returned list is strictly ascending by path whatever the walk
\* order, and two calls on the same root with the same arguments return the
\* same list.
C3_SortedAndDeterministic ==
    /\ calls >= 1 => \A k \in 1..(Len(out) - 1) : StrLess(out[k].path, out[k + 1].path)
    /\ calls >= 2 => out = prev_out

\* A second call whose walk did not enumerate the files in ascending order
\* and that returned at least two files.
C3_Witness ==
    /\ calls >= 2
    /\ ~IsAscending(walk)
    /\ Len(out) >= 2

\* C4: at most max_files entries are returned and their sizes sum to at most
\* max_bytes.
C4_CapsRespected ==
    calls >= 1 => (Len(out) <= max_files /\ SumSizes(out) <= max_bytes)

\* A call in which a cap cut the listing short of the candidates.
C4_Witness ==
    /\ calls >= 1
    /\ out # << >>
    /\ \/ Cardinality(CandidateSet) > max_files
       \/ SumOver(CandidateSet, tree) > max_bytes

\* C5: the returned entries are a prefix of the sorted candidate list: the
\* k-th entry is the candidate with exactly k-1 smaller candidates, so no
\* candidate is returned after a rejected one.
C5_PrefixOfSortedCandidates ==
    calls >= 1 =>
        \A k \in 1..Len(out) :
            /\ out[k].path \in CandidateSet
            /\ Cardinality({ q \in CandidateSet : StrLess(q, out[k].path) }) = k - 1

\* A candidate was rejected by the byte cap and a later, smaller candidate
\* would still have fitted under both caps.
C5_Witness ==
    /\ calls >= 1
    /\ Len(out) + 1 <= max_files
    /\ \E p, q \in CandidateSet :
          /\ p \notin OutPaths /\ q \notin OutPaths
          /\ StrLess(p, q)
          /\ SumSizes(out) + Len(tree[p].bytes) > max_bytes
          /\ SumSizes(out) + Len(tree[q].bytes) <= max_bytes

\* The case of C6: max_bytes = 10, max_files >= 2 and exactly two
\* candidates, of sizes 6 and 4 in sorted order.
C6_Case ==
    /\ calls >= 1
    /\ max_bytes = 10
    /\ max_files >= 2
    /\ \E p, q \in CandidateSet :
          /\ CandidateSet = {p, q}
          /\ StrLess(p, q)
          /\ Len(tree[p].bytes) = 6
          /\ Len(tree[q].bytes) = 4

\* C6 as claimed: in that case only the first file is returned.
C6_OnlyFirstReturned ==
    C6_Case => (Len(out) = 1 /\ out[1].size = 6)

\* C6 as amended: in that case both files are returned, because the
\* cumulative size 6 + 4 equals the cap and does not exceed it.
C6_BothReturned ==
    C6_Case => (Len(out) = 2 /\ out[1].size = 6 /\ out[2].size = 4)

C6_Witness == C6_Case /\ SumSizes(out) = max_bytes

(***************************************************************************)
(* Properties of read_selected_bundle (checked under SpecBundle)           *)
(***************************************************************************)

BundleCalled == bundle # NotCalled

\* C7: if any selected path is not an existing regular file, the call raises
\* FileNotFoundError and returns no text, wherever the missing path stands.
C7_AllOrNothing ==
    ( /\ BundleCalled
      /\ \E k \in 1..Len(selected_paths) :
            ~(selected_paths[k] \in DOMAIN tree /\ tree[selected_paths[k]].kind = "file") )
    => (~bundle.ok /\ bundle.error = "FileNotFoundError" /\ bundle.text = << >>)

\* The first selected file was read and the second one is missing.
C7_Witness ==
    /\ BundleCalled
    /\ Len(selected_paths) = 2
    /\ selected_paths[1] \in DOMAIN tree /\ tree[selected_paths[1]].kind = "file"
    /\ selected_paths[2] \notin DOMAIN tree
    /\ ~bundle.ok

\* The text the claim describes: per selected path, in the given order, a
\* header line naming the path, the content, and a blank line between blocks.
RECURSIVE ExpectedBundle(_, _, _)
ExpectedBundle(t, sel, k) ==
    IF k > Len(sel) THEN << >>
    ELSE << "#", " ", "=", "=", "=", " " >> \o sel[k] \o << " ", "=", "=", "=" >>
         \o << "\n" >>
         \o SelectSeq(t[sel[k]].bytes, LAMBDA b : b # InvalidByte)
         \o << "\n" >>
         \o (IF k < Len(sel) THEN << "\n" >> ELSE << >>)
         \o ExpectedBundle(t, sel, k + 1)

\* C8: when every selected path exists, the bundle is one block per selected
\* path in the caller's order, duplicates kept, joined by a blank line.
C8_BlocksInCallerOrder ==
    ( /\ BundleCalled
      /\ \A k \in 1..Len(selected_paths) :
            selected_paths[k] \in DOMAIN tree /\ tree[selected_paths[k]].kind = "file" )
    => (bundle.ok /\ bundle.text = ExpectedBundle(tree, selected_paths, 1))

\* Two existing files selected in descending path order.
C8_Witness ==
    /\ BundleCalled
    /\ bundle.ok
    /\ Len(selected_paths) = 2
    /\ StrLess(selected_paths[2], selected_paths[1])

(***************************************************************************)
(* Properties of the session lifecycle (checked under Spec)                *)
(***************************************************************************)

\* C9: once a summarize request with cleanup true has completed for a source
\* id, the working folder and its manifest are gone from the volume, no
\* authorized, well-formed summarize request begun afterwards for that id gets
\* as far as the bundle or the LLM call, and each of them is answered with
\* "unknown source_id or expired".
C9_DestroyedSessionUnknown ==
    \A sid \in Ids :
        sess[sid] = "destroyed" =>
            /\ ~vol[sid].exists
            /\ vol[sid].manifest = NoRoot
            /\ \A c \in SumContainers :
                   ~(pc[c] # "idle" /\ req[c].sid = sid /\ req[c].late)
            /\ replies \subseteq { UnknownSession }

\* A destroyed session was asked for again and the request was refused.
C9_Witness ==
    /\ \E sid \in Ids : sess[sid] = "destroyed"
    /\ UnknownSession \in replies

\* C10: when a prepare request that had created its working folder has
\* returned an error, that folder exists neither in the view of any container
\* nor in the committed volume, and neither holds a manifest for its id.
C10_FailedPrepareLeavesNothing ==
    \A sid \in Ids :
        sess[sid] \in { "failed400", "failed500" } =>
            /\ ~vol[sid].exists
            /\ vol[sid].manifest = NoRoot
            /\ \A c \in Containers :
                   /\ ~view[c][sid].exists
                   /\ view[c][sid].manifest = NoRoot

\* A prepare request failed with an error raised while or after its folder
\* was populated (a failed clone or download, a manifest or commit error).
C10_Witness ==
    \E sid \in Ids : sess[sid] = "failed500"

\* C11: when a prepare request was cut off by the timeout or a cancellation
\* while it was cloning, downloading or extracting, its working folder exists
\* in no container's view and not in the volume.
C11_CancelledPrepareRemoved ==
    \A sid \in Ids :
        sess[sid] = "cancelled" =>
            /\ ~vol[sid].exists
            /\ \A c \in Containers : ~view[c][sid].exists

\* C12: a summarize request for an id that has no manifest in the committed
\* volume is refused with "unknown source_id or expired"; no request gets to
\* the bundle, the LLM call or the cleanup unless the manifest of its id was
\* there when it began; and the step that refuses a request leaves the
\* volume and the container's uncommitted changes as they were.
C12_UnknownSessionRefused ==
    [][ \A c \in SumContainers :
          /\ (pc'[c] = "refused" /\ ~req'[c].known) => req'[c].detail = UnknownSession
          /\ pc'[c] \in { "llm", "commit" } => req'[c].known
          /\ (pc[c] = "refused" \/ pc'[c] = "refused") =>
                (pc'[c] # pc[c] => vol' = vol /\ dirty' = dirty) ]_vars

\* A request for the id of a prepare that failed or was cut off is being
\* refused as unknown.
C12_Witness ==
    \E c \in SumContainers :
        /\ pc[c] = "refused"
        /\ ~req[c].known
        /\ req[c].detail = UnknownSession
        /\ \E sid \in Ids : sess[sid] \in { "failed400", "failed500", "cancelled" }

\* C13: a prepare handler reaches its return statement only from the commit,
\* the commit only from the manifest write, the manifest write only from the
\* indexing and the indexing only from the materialization; when it arrives
\* at the return statement the committed volume holds the manifest with the
\* request's root; and a session becomes ready only by that return.
C13_SuccessAfterCommit ==
    [][ \A c \in PrepContainers :
          /\ (pc'[c] = "respond" /\ pc[c] # "respond") =>
                /\ pc[c] = "commit"
                /\ req'[c].root # NoRoot
                /\ vol'[req'[c].sid].exists
                /\ vol'[req'[c].sid].state = "full"
                /\ vol'[req'[c].sid].manifest = req'[c].root
          /\ (pc'[c] = "commit" /\ pc[c] # "commit") =>
                /\ pc[c] = "manifest"
                /\ view'[c][req'[c].sid].manifest = req'[c].root
          /\ (pc'[c] = "manifest" /\ pc[c] # "manifest") => pc[c] = "index"
          /\ (pc'[c] = "index" /\ pc[c] # "index") => pc[c] = "materialize"
          /\ \A sid \in Ids :
                (sess'[sid] = "ready" /\ sess[sid] # "ready") =>
                    \E d \in PrepContainers : pc[d] = "respond" /\ req[d].sid = sid ]_vars

\* A prepare request has returned success.
C13_Witness ==
    \E sid \in Ids : sess[sid] = "ready" /\ vol[sid].state = "full"

\* C14: a summarize request that begins after a prepare returned success for
\* its id, and before any cleanup has removed the folder, finds the manifest
\* and the root: it is never refused as unknown or missing.
C14_ReadAfterWrite ==
    \A c \in SumContainers :
        (pc[c] = "refused" /\ req[c].ready) =>
            req[c].detail \notin { UnknownSession, SourceMissing }

\* A summarize container, whose view was empty before, has resolved a session
\* that a prepare container committed.
C14_Witness ==
    \E c \in SumContainers :
        /\ pc[c] = "llm"
        /\ req[c].known
        /\ sess[req[c].sid] = "ready"
        /\ view[c][req[c].sid].manifest = vol[req[c].sid].manifest
        /\ view[c][req[c].sid].manifest # NoRoot

LiveSession(sid) == sess[sid] \in { "preparing", "ready" }

\* C16: a prepare request is given an id that no session had before; a
\* step of a prepare container leaves its view of every folder but the one
\* of its own request as it was; and the folder of a live session changes
\* in the committed volume only by the commit of the request that owns it.
C16_PreparesNeverCollide ==
    [][ \A c \in ConcurrentPrepContainers :
          /\ (pc[c] = "idle" /\ pc'[c] # "idle") =>
                /\ sess[req'[c].sid] = "unused"
                /\ \A d \in ConcurrentPrepContainers \ { c } : req[d].sid # req'[c].sid
          /\ \A s \in Ids :
                (s # req[c].sid /\ s # req'[c].sid) => view'[c][s] = view[c][s]
          /\ \A s \in Ids :
                (LiveSession(s) /\ vol'[s] # vol[s]) =>
                    \E d \in ConcurrentPrepContainers : pc[d] = "commit" /\ req[d].sid = s ]_vars

\* Two prepare requests with different ids are under way at the same time,
\* one in its except clause after the other populated its folder.
C16_Witness ==
    \E c, d \in ConcurrentPrepContainers :
        /\ c # d
        /\ pc[c] = "failed"
        /\ pc[d] \in { "index", "manifest", "commit" }
        /\ req[c].sid # req[d].sid
        /\ view[c][req[c].sid].exists
        /\ view[d][req[d].sid].exists

(***************************************************************************)
(* Properties of the default filters (checked under SpecDefaults and Spec) *)
(***************************************************************************)

\* The directory names of the default exclude list: the name between
\* "**/" and "/**" of each pattern.
ExcludedDirNames ==
    { SubSeq(DefaultExclude[k], 4, Len(DefaultExclude[k]) - 3) : k \in 1..Len(DefaultExclude) }

\* The last component of a directory path.
BaseName(d) ==
    IF SlashPositions(d) = {} THEN d
    ELSE SubSeq(d, (CHOOSE k \in SlashPositions(d) : \A m \in SlashPositions(d) : m <= k) + 1,
                Len(d))

\* p lies in a directory, at any depth, that the default exclude list names.
InExcludedDir(p) ==
    \E d \in AncestorDirs(p) \ { << >> } : BaseName(d) \in ExcludedDirNames

\* C17: with the default filters, no path that index_files returns lies
\* inside a .git, node_modules, .venv, dist, build or .cache directory,
\* directly under the root or deeper.
C17_ExcludedDirsHidden ==
    \A k \in 1..Len(out) : ~InExcludedDir(out[k].path)

\* C18: once a pasted-code prepare request has indexed its snippet root with
\* the default filters, the listing contains snippet.txt.
C18_SnippetListed ==
    \A c \in PrepContainers :
        (pc[c] \in { "manifest", "commit", "respond" } /\ req[c].kind = "pasted_code") =>
            \E k \in 1..Len(req[c].files) : req[c].files[k].path = P_snippet_txt

\* The files under the root of a request that the default filters accept.
Accepted(c) ==
    { p \in DOMAIN TreeAt(view[c], req[c].root) :
        /\ ~MatchesAny(p, DefaultExclude)
        /\ MatchesAny(p, DefaultInclude)
        /\ SizeReadable(TreeAt(view[c], req[c].root)[p]) }

\* C19: a repository-directory request goes on to the indexing only with the
\* named subdirectory of the clone as its root, and that root is a
\* directory; when the subdirectory does not exist in the clone the request
\* fails with a 400, and the step that returns the error leaves no folder
\* and no manifest for its id, in the container or in the volume.
C19_SubdirRootOrFailure ==
    [][ \A c \in PrepContainers :
          LET sid == req[c].sid
              grd == req[c].kind = "github_repo_directory"
              root == Root(sid, "repo", req[c].subdir)
          IN  /\ (grd /\ pc[c] = "materialize" /\ pc'[c] = "index") =>
                    /\ req'[c].root = root
                    /\ isdir(view'[c], root)
              /\ (grd /\ pc[c] = "materialize" /\ pc'[c] # "materialize"
                       /\ view'[c][sid].state = "full" /\ ~isdir(view'[c], root)) =>
                    /\ pc'[c] = "failed"
                    /\ req'[c].status = 400
              /\ (grd /\ pc[c] = "failed" /\ pc'[c] = "idle") =>
                    /\ ~view'[c][sid].exists
                    /\ view'[c][sid].manifest = NoRoot
                    /\ ~vol'[sid].exists
                    /\ vol'[sid].manifest = NoRoot ]_vars

\* A repository was cloned, the subdirectory asked for is not in it, and the
\* request is in its except clause with status 400.
C19_Witness ==
    \E c \in PrepContainers :
        /\ pc[c] = "failed"
        /\ req[c].kind = "github_repo_directory"
        /\ req[c].subdir = P_nodir
        /\ req[c].status = 400
        /\ view[c][req[c].sid].state = "full"
        /\ view[c][req[c].sid].tree # EmptyTree

\* C20: the indexing step of a prepare request never fails; when no file
\* under the root passes the filters it yields the empty list, and the
\* request goes on to the manifest, the commit and the return.
C20_EmptyIndexSucceeds ==
    [][ \A c \in PrepContainers :
          /\ (pc[c] = "index" /\ pc'[c] # "index") =>
                /\ pc'[c] = "manifest"
                /\ Accepted(c) = {} => req'[c].files = << >>
          /\ (pc'[c] = "respond" /\ req'[c].files = << >>) =>
                /\ vol'[req'[c].sid].manifest = req'[c].root
                /\ req'[c].root # NoRoot ]_vars

\* A prepare request with an empty listing, for an empty repository, stands
\* at its return statement with the manifest committed.
C20_Witness ==
    \E c \in PrepContainers :
        /\ pc[c] = "respond"
        /\ req[c].files = << >>
        /\ req[c].kind = "github_repo"
        /\ view[c][req[c].sid].tree = EmptyTree
        /\ vol[req[c].sid].manifest = req[c].root

(***************************************************************************)
(* Properties of _call_llm_sections (checked under SpecLLM, SpecLLMFair)   *)
(***************************************************************************)

\* C21: whenever _call_llm_sections returns, the keys of the returned object
\* are exactly the requested section ids (added keys dropped), every id the
\* model left out is filled with [] for a list section and "" otherwise, and
\* a short_text string value is no longer than its max_chars.
C21_ShapedAnswer ==
    llm.pc = "returned" =>
        /\ DOMAIN llm.result = Requested(llm.sections)
        /\ \A k \in DOMAIN llm.sections :
              LET s == llm.sections[k]
              IN  /\ s.id \notin DOMAIN llm.parsed =>
                        llm.result[s.id] = IF s.type = "list" THEN EmptyList ELSE EmptyStr
                  /\ (s.type = "short_text" /\ s.max_chars # NoMaxChars
                         /\ llm.result[s.id].kind = "str")
                        => Len(llm.result[s.id].text) <= s.max_chars[1]

Count(seq, x) == Cardinality({ k \in DOMAIN seq : seq[k] = x })

LlmDone == llm.pc \in { "returned", "raised" }

C25_Requests ==
    /\ \A k \in DOMAIN llm.order :
          IF k = 1 THEN llm.order[k] = 1
          ELSE llm.order[k] \in { llm.order[k - 1], llm.order[k - 1] + 1 }
    /\ \A m \in DOMAIN models_to_try : Count(llm.order, m) <= 3
    /\ Len(llm.order) <= 9
    /\ (llm.pc = "post" /\ llm.attempt > 1) => llm.last = "timeout"
    /\ (llm.pc = "post" /\ llm.last \in { "status", "body", "shape", "not_object" })
          => llm.attempt = 1
    /\ llm.last = "success" <=> llm.pc = "returned"
    /\ llm.status = 502 <=> (llm.key /\ llm.pc = "raised")

\* C25: for every sequence of Groq outcomes _call_llm_sections terminates;
\* it tries the three models in their listed order, sends at most 3 requests
\* per model and 9 in total, retries the same model only after a network
\* error, moves to the next model without a retry after a non-200 status or
\* a malformed response, returns on the first successful response and raises
\* 502 exactly when no request succeeded.
C25_LoopTerminates == [] C25_Requests /\ <> LlmDone

(***************************************************************************)
(* Properties of collect_all_dependencies (checked under SpecDepsFair)     *)
(***************************************************************************)

\* The modules reachable from S through local imports.
RECURSIVE ReachableFrom(_, _)
ReachableFrom(graph, S) ==
    LET next == S \cup UNION { extract_local_imports(graph, m) : m \in S }
    IN  IF next = S THEN S ELSE ReachableFrom(graph, next)

NoDuplicates(seq) == \A j, k \in DOMAIN seq : j # k => seq[j] # seq[k]

DepDone == dep.pc \in { "returned", "raised" }

C26_EachOnceAndReachable ==
    /\ NoDuplicates(dep.analysed)
    /\ dep.pc = "returned" =>
          dep.visited = { mod_path(m) : m \in ReachableFrom(dep.graph, { EntryModule }) }

\* C26: collect_all_dependencies terminates for every import graph, also
\* with import cycles and self-imports, analyses each file at most once and
\* returns exactly the files reachable from the entry file through local
\* imports, the entry file included.
C26_CollectTerminates == [] C26_EachOnceAndReachable /\ <> DepDone

\* A call returned on a graph with a self-import and a cycle through three files.
C26_Witness ==
    /\ dep.pc = "returned"
    /\ EntryModule \in dep.graph[EntryModule]
    /\ "a" \in dep.graph[EntryModule]
    /\ "b" \in dep.graph["a"]
    /\ EntryModule \in dep.graph["b"]
    /\ "a" \in dep.graph["b"]
    /\ Len(dep.analysed) = Cardinality(Modules)

(***************************************************************************)
(* Properties of the session life cycle (checked under Spec)               *)
(***************************************************************************)

\* Positions of a prepare request at which its manifest is not yet written.
BeforeManifest == { "validate", "materialize", "index", "manifest" }

ManifestIn(dirs, sid) == dirs[sid].exists /\ dirs[sid].manifest # NoRoot

\* Materialization and indexing of the session completed and its prepare
\* did not fail.
Indexed(sid) ==
    /\ sess[sid] \notin { "unused", "failed400", "failed500", "cancelled" }
    /\ \A c \in Containers : req[c].sid = sid => pc[c] \notin BeforeManifest

\* C22: a session id is resolvable (its manifest exists, in the volume or in
\* the view of a container) only if the materialization and the indexing of
\* that session completed; no summarize request resolves a session that is
\* still being materialized or whose prepare failed.
C22_ManifestAfterIndexing ==
    /\ \A dirs \in { vol } \cup { view[c] : c \in Containers } : \A sid \in Ids :
          ManifestIn(dirs, sid) => dirs[sid].state = "full" /\ Indexed(sid)
    /\ \A c \in SumContainers : pc[c] = "llm" => Indexed(req[c].sid)

\* A summarize request has resolved a session through its manifest.
C22_Witness ==
    \E c \in SumContainers :
        /\ pc[c] = "llm"
        /\ ManifestIn(view[c], req[c].sid)
        /\ ManifestIn(vol, req[c].sid)

\* The materialized files of a session, as c sees them, are no longer what
\* they were.
TreeTouched(c, sid) ==
    /\ view[c][sid].state = "full"
    /\ \/ view'[c][sid].tree # view[c][sid].tree
       \/ view'[c][sid].state # "full"

\* C24: index_files and read_selected_bundle leave the materialized tree as
\* it is; the files of a session are deleted only by the cleanup of summarize
\* and by the failure cleanup of prepare (another container sees such a
\* deletion when it reloads the volume).
C24_OnlyCleanupDeletes ==
    [][ \A c \in Containers :
          /\ pc[c] = "index" => view'[c] = view[c]
          /\ (c \in SumContainers /\ pc[c] = "idle")
                => view'[c] \in { view[c], Reloaded(vol, view[c], dirty[c]) }
          /\ \A sid \in Ids :
                TreeTouched(c, sid) =>
                   \/ pc[c] = "failed" /\ req[c].sid = sid
                   \/ pc[c] = "llm" /\ req[c].sid = sid /\ req[c].cleanup
                   \/ /\ c \in SumContainers /\ pc[c] = "idle"
                      /\ view'[c][sid] = vol[sid]
                      /\ sess[sid] \in { "removing", "destroyed" }
      ]_vars

\* A source with files was indexed and a bundle was read from it.
C24_Witness ==
    \E c \in SumContainers :
        /\ pc[c] = "llm"
        /\ req[c].files # << >>
        /\ view[c][req[c].sid].tree # EmptyTree

\* What a summarize request that starts now in container c would find for
\* the session after its volume.reload().
SeenAfterReload(c, sid) == Reloaded(vol, view[c], dirty[c])[sid]

\* C30: a summarize request removes the session only after the bundle was
\* read and the LLM call returned, and only with cleanup set; a request whose
\* bundle read fails, whose LLM call fails or whose cleanup is false leaves
\* the directory and the manifest as they are, so that a later summarize
\* request resolves the same root.
C30_DestroyOnlyOnCleanup ==
    [][ \A c \in SumContainers :
          /\ (pc[c] \in { "refused", "llm" } /\ pc'[c] = "idle")
                => /\ vol' = vol /\ view'[c] = view[c] /\ dirty'[c] = dirty[c]
                   /\ \A d \in SumContainers : \A sid \in Ids :
                         SeenAfterReload(d, sid)' = SeenAfterReload(d, sid)
          /\ (pc[c] = "idle" /\ pc'[c] = "refused")
                => vol' = vol /\ dirty' = dirty
                   /\ view'[c] = Reloaded(vol, view[c], dirty[c])
          /\ \A sid \in Ids :
                (pc[c] # "idle" /\ view[c][sid].exists /\ ~view'[c][sid].exists)
                   => pc[c] = "llm" /\ pc'[c] = "commit" /\ req[c].sid = sid /\ req[c].cleanup
          /\ (pc[c] = "commit" /\ vol' # vol) => req[c].cleanup
      ]_vars

\* The bundle read of a request on a ready session failed and the session is
\* still in the volume.
C30_Witness ==
    \E c \in SumContainers : \E sid \in Ids :
        /\ pc[c] = "refused"
        /\ req[c].status = 500
        /\ req[c].ready
        /\ sess[sid] = "ready"
        /\ ManifestIn(vol, sid)
        /\ ManifestIn(view[c], sid)

(***************************************************************************)
(* Properties of the token check (checked under SpecAuth)                  *)
(***************************************************************************)

\* The token a header carries: what follows the scheme "Bearer ".
TokenOf(header) ==
    LET text == HeaderText(header)
        n == Len(BearerPrefix)
    IN  IF Len(text) >= n /\ SubSeq(text, 1, n) = BearerPrefix
        THEN SubSeq(text, n + 1, Len(text))
        ELSE text

\* The request does not carry the SECRET_TOKEN of the deployment.
BadToken(env, header) ==
    \/ ~env.set
    \/ env.value = << >>
    \/ TokenOf(header) # env.value

GivenOr(x, default) == IF x = None THEN default ELSE x[1]

C28_RootInsideWorkRoot ==
    \A dirs \in { vol } \cup { view[c] : c \in Containers } : \A sid \in Ids :
        ManifestIn(dirs, sid) =>
            LET r == RootPath(dirs, dirs[sid].manifest)
            IN  r.ok /\ IsPrefix(WorkRoot(sid), r.path)

\* C29: every file whose content is in a bundle lies under the root of the
\* session: for every selected path, ".." components and absolute paths
\* included, read_selected_bundle reads a file inside root or fails.
C29_BundleInsideRoot ==
    \A c \in SumContainers :
        pc[c] = "llm" =>
            LET dirs == view[c]
                at == RootPath(dirs, dirs[req[c].sid].manifest).path
            IN  \A k \in DOMAIN req[c].sel :
                    LET f == JoinPath(dirs, at, req[c].sel[k])
                    IN  f.ok /\ IsPrefix(at, f.path) /\ f.path # at

================================================================================
